---- MODULE Spec2Model ----
(***************************************************************************)
(* Plinth: the build-queue consumer (BuildQueuePoller) of the Designer     *)
(* extension, the collection store it reads and writes, and the poll loop. *)
(*                                                                         *)
(* One processNext invocation is a process: it suspends at every await and *)
(* other callbacks (timer ticks, button clicks, start/stop) run meanwhile.  *)
(* A slot of `proc` holds one armed timer or one running invocation.       *)
(*                                                                         *)
(* The builder (executeBuildPlan, createStyles, buildTree) is modelled on  *)
(* its own: one executor call at a time works on a canvas of styles and    *)
(* elements, one step per style and per tree node.                         *)
(*                                                                         *)
(* The snapshot side channel (the relay's /snapshot routes, the            *)
(* extension's checkAndSendSnapshot, a requester) is modelled on its own   *)
(* too, with a clock that the TTL checks read.                             *)
(*                                                                         *)
(* The relay's queue routes (POST /queue, DELETE /queue/:itemId and        *)
(* POST /queue/clear) are modelled twice: the clear request against the    *)
(* poller's store, and the routes with a one-tick-at-a-time consumer on a  *)
(* queue that grows and shrinks.                                           *)
(***************************************************************************)
EXTENDS Integers, Sequences, FiniteSets, TLC

\* ---------------------------------------------------------------- bounds
NumItems    == 2    \* queue items in the store
MaxProcs    == 2    \* timers / processNext invocations alive at a time
MaxFailures == 1    \* store or transport calls that may fail in one run
LiveFailures == 2   \* the same, in the runs that check progress
SelItems    == 3    \* queue items of the selection scenario (orders 3,1,2)
MaxStyles   == 2    \* style definitions in a plan
MaxNodes    == 4    \* element nodes in a plan's tree
MaxRuns     == 2    \* executor calls on the same payload, one after another
CanvasFailures == 2 \* canvas calls that may fail in the builder's runs
MaxAdvances == 2    \* times the clock of the snapshot relay moves on
MaxRequests == 2    \* snapshot requests made in one run
MaxSpine == 6       \* depth of the deepest element of a traversed canvas
MaxLevels == 8      \* levels of the deepest tree of a validated document
MaxNames == 3       \* styles of a document validated for duplicate names
MaxClears == 1      \* clear requests made in one run
MaxSubmissions == 4 \* plans posted to the relay's queue in one run

\* ------------------------------------------------------- program constants
POLL_INTERVAL_MS == 5000
REQUEST_TTL_MS   == 90000
SNAPSHOT_TTL_MS  == 300000
SNAPSHOT_MAX_DEPTH == 5
MAX_CHILDREN     == 10
MAX_DEPTH        == 6
RELAY_MAX_DEPTH  == 6

NoError     == "none"
MsgList     == "Failed to fetch queue items"
MsgPatch    == "Failed to update item status"
MsgPublish  == "Failed to publish item"
MsgGetItem  == "Failed to fetch queue item"
MsgParse    == "Failed to parse BuildPlan JSON"
MsgNoMsg    == "Build failed with no error message"
MsgInvalid  == "validation error"
MsgCanvas   == "element build error"

QueueStatus == {"pending", "building", "done", "error"}
Terminal    == {"done", "error"}
PlanKinds   == {"good", "invalid", "badjson"}

VARIABLES
    running,        \* BuildQueuePoller.running
    timeoutHandle,  \* BuildQueuePoller.timeoutHandle (0 = null, else a slot)
    store,          \* the collection store: item id -> queue item
    proc,           \* slot -> armed timer or processNext invocation
    hist,           \* slot -> what the current tick has done so far
    budget,         \* store/transport/canvas calls that may still fail
    payload,        \* the plan field of the queue item handed to the builder
    canvas,         \* the Designer canvas: styles, elements, selection
    ex,             \* the executeBuildPlan call in progress
    runs,           \* the executor calls that have ended, oldest first
    now,            \* Date.now() of the relay, in ms
    relay,          \* the relay's maps: pending requests, stored snapshots
    snapTick,       \* site -> the checkAndSendSnapshot call of its extension
    snapHist,       \* what requests, replies and submissions there have been
    dom,            \* the canvas tree a snapshot is captured from
    lines,          \* the lines of the snapshot's element tree
    vdoc,           \* the document handed to the validators
    verdict,        \* what each validator has said of it
    clearOp,        \* the relay's POST /queue/clear request in progress
    cms             \* the queue collection as the relay's routes fill it

vars == <<running, timeoutHandle, store, proc, hist, budget,
          payload, canvas, ex, runs, now, relay, snapTick, snapHist,
          dom, lines, vdoc, verdict, clearOp, cms>>

\* The variables of the relay's queue routes.
queueVars == <<clearOp, cms>>

\* The variables of the validators.
valVars == <<vdoc, verdict>>

\* The variables of the snapshot traversal.
travVars == <<dom, lines>>

\* The variables of the snapshot side channel.
snapVars == <<now, relay, snapTick, snapHist>>

\* The builder's own variables, which no poller step touches.
builderVars == <<payload, canvas, ex, runs>>

Items == DOMAIN store
Procs == DOMAIN proc

\* Program points of a processNext invocation: the await it is suspended at.
TickPcs == {"snapshot", "list", "listed", "setBuilding", "refresh", "getItem",
            "exec", "setDone", "setError", "final"}
\* Points between the selection of an item and the end of its processing.
ItemPcs == {"setBuilding", "refresh", "getItem", "exec", "setDone", "setError",
            "final"}

NoResult == [called |-> FALSE, success |-> FALSE, error |-> NoError]

IdleProc == [pc |-> "idle", kind |-> "none", delay |-> 0, items |-> <<>>,
             item |-> 0, error |-> NoError, result |-> NoResult]

\* What a tick has done so far: the listing it got, the calls that failed,
\* the first error thrown, the status writes issued, what the error write
\* carried and stored, and the observers notified.
NoHist == [listing |-> "none", cause |-> "none", failed |-> {},
           firstError |-> NoError, wrote |-> {}, errWrite |-> NoError,
           errWriteFailed |-> FALSE, errStored |-> <<>>, reported |-> NoError,
           started |-> FALSE, completed |-> FALSE, executed |-> FALSE]

\* ------------------------------------------------------------ pure helpers

\* GET listing: id, status and order of every item, in store order.
RECURSIVE ListFrom(_, _)
ListFrom(s, k) ==
    IF k \notin DOMAIN s THEN <<>>
    ELSE <<[id |-> k, status |-> s[k].status, order |-> s[k].order]>>
         \o ListFrom(s, k + 1)

getQueueItems(s) == ListFrom(s, 1)

\* A filter that also lets failed items through.
IsPendingOrError(it) == it.status \in {"pending", "error"}

\* .filter((item) => item.status === 'pending')
IsPending(it) == it.status = "pending"

\* Array.prototype.sort with comparator a.order - b.order is stable:
\* insert each element after every element that is not larger.
RECURSIVE InsertByOrder(_, _)
InsertByOrder(sorted, x) ==
    IF sorted = <<>> THEN <<x>>
    ELSE IF Head(sorted).order - x.order <= 0
         THEN <<Head(sorted)>> \o InsertByOrder(Tail(sorted), x)
         ELSE <<x>> \o sorted

RECURSIVE SortByOrder(_)
SortByOrder(seq) ==
    IF seq = <<>> THEN <<>>
    ELSE InsertByOrder(SortByOrder(SubSeq(seq, 1, Len(seq) - 1)), seq[Len(seq)])

PendingSorted(items) == SortByOrder(SelectSeq(items, IsPending))

\* JSON.parse of the stored payload.
ParsesAsJson(plan) == plan # "badjson"

\* Results executeBuildPlan can return for a parsed payload: a payload that
\* fails validation gives success=false; a valid one succeeds unless the
\* canvas capability fails while the tree is built.
ExecResults(plan) ==
    IF plan = "good"
    THEN {[called |-> TRUE, success |-> TRUE,  error |-> NoError],
          [called |-> TRUE, success |-> FALSE, error |-> MsgCanvas]}
    ELSE {[called |-> TRUE, success |-> FALSE, error |-> MsgInvalid]}

\* The executor's error text dropped in favour of the default.
ResultMessageDefault(result) == MsgNoMsg

\* result.error ?? 'Build failed with no error message'
ResultMessage(result) ==
    IF result.error = NoError THEN MsgNoMsg ELSE result.error

\* ---------------------------------------------------------- store calls

\* setItemStatus: PATCH the item, then publish it.  The PATCH can fail
\* (nothing stored), or the PATCH succeeds and the publish fails (the status
\* is stored and the call still throws).
StatusOutcomes == {"ok", "patch_failed", "publish_failed"}

Applied(o) == o \in {"ok", "publish_failed"}

ThrownBy(o) ==
    CASE o = "ok"             -> NoError
      [] o = "patch_failed"   -> MsgPatch
      [] o = "publish_failed" -> MsgPublish

\* The PATCH applied to every item of the collection, not to the one named.
setItemStatusOfAll(s, id, status, errorMessage, o) ==
    IF Applied(o)
    THEN [i \in DOMAIN s |->
             [s[i] EXCEPT !.status = status, !.errorMessage = errorMessage]]
    ELSE s

\* body: { status, 'error-message': errorMessage ?? '' }
setItemStatus(s, id, status, errorMessage, o) ==
    IF Applied(o)
    THEN [s EXCEPT ![id].status = status, ![id].errorMessage = errorMessage]
    ELSE s

CanFail == budget > 0

\* The first pending item of the listing, the sort left out.
SelectItemUnsorted(items) == SelectSeq(items, IsPending)[1].id

\* The item processNext works on: the head of the pending items by order.
SelectItem(items) == PendingSorted(items)[1].id

\* The success check left out.
BuildSucceededAlways(result) == TRUE

\* if (!result.success) throw ...
BuildSucceeded(result) == result.success

\* The failed error write's own error taking the place of the original.
ReportedErrorLatest(error, writeErr) ==
    IF writeErr = NoError THEN error ELSE writeErr

\* catch (err) { try { setItemStatus('error') } catch {} ; onError(error) }
\* the error handed to onError after the error write threw writeErr.
ReportedError(error, writeErr) == error

\* A loop that re-arms whether or not the poller was stopped.
ShouldRearmAlways(isRunning, h) == TRUE

\* A loop that gives up after a tick that reported an error.
ShouldRearmUnlessError(isRunning, h) == isRunning /\ h.reported = NoError

\* if (this.running) this.scheduleNext(POLL_INTERVAL_MS)
ShouldRearm(isRunning, h) == isRunning

FreeSlots == {p \in Procs : proc[p].pc = "idle"}
FreeSlot  == CHOOSE p \in FreeSlots : \A q \in FreeSlots : p <= q

\* --------------------------------------------------------------- actions

\* scheduleNext(delayMs): arm a timer in slot p and remember its handle.
scheduleNext(p, delayMs) ==
    /\ proc' = [proc EXCEPT ![p] = [IdleProc EXCEPT !.pc = "armed",
                                       !.kind = "timer", !.delay = delayMs]]
    /\ timeoutHandle' = p

start ==
    /\ ~running
    /\ FreeSlots # {}
    /\ running' = TRUE
    /\ scheduleNext(FreeSlot, 0)
    /\ UNCHANGED <<store, hist, budget>>
    /\ UNCHANGED builderVars
    /\ UNCHANGED snapVars
    /\ UNCHANGED queueVars
    /\ UNCHANGED travVars
    /\ UNCHANGED valVars

stop ==
    /\ running' = FALSE
    /\ IF timeoutHandle # 0
       THEN /\ proc' = IF proc[timeoutHandle].pc = "armed"
                       THEN [proc EXCEPT ![timeoutHandle] = IdleProc]
                       ELSE proc
            /\ timeoutHandle' = 0
       ELSE UNCHANGED <<proc, timeoutHandle>>
    /\ UNCHANGED <<store, hist, budget>>
    /\ UNCHANGED builderVars
    /\ UNCHANGED snapVars
    /\ UNCHANGED queueVars
    /\ UNCHANGED travVars
    /\ UNCHANGED valVars

\* The setTimeout callback: return when stopped, else enter processNext.
TimerFire(p) ==
    /\ proc[p].pc = "armed"
    /\ proc' = IF ~running
               THEN [proc EXCEPT ![p] = IdleProc]
               ELSE [proc EXCEPT ![p].pc = "snapshot", ![p].delay = 0]
    /\ UNCHANGED <<running, timeoutHandle, store, hist, budget>>
    /\ UNCHANGED builderVars
    /\ UNCHANGED snapVars
    /\ UNCHANGED queueVars
    /\ UNCHANGED travVars
    /\ UNCHANGED valVars

\* The 'Build Next' / 'Refresh' button, disabled while auto-polling.
handleBuildNext ==
    /\ ~running
    /\ FreeSlots # {}
    /\ proc' = [proc EXCEPT ![FreeSlot] =
                   [IdleProc EXCEPT !.pc = "snapshot", !.kind = "button"]]
    /\ UNCHANGED <<running, timeoutHandle, store, hist, budget>>
    /\ UNCHANGED builderVars
    /\ UNCHANGED snapVars
    /\ UNCHANGED queueVars
    /\ UNCHANGED travVars
    /\ UNCHANGED valVars

\* await checkAndSendSnapshot(siteId, relayUrl): swallows every error.
checkAndSendSnapshot(p) ==
    /\ proc[p].pc = "snapshot"
    /\ proc' = [proc EXCEPT ![p].pc = "list"]
    /\ UNCHANGED <<running, timeoutHandle, store, hist, budget>>
    /\ UNCHANGED builderVars
    /\ UNCHANGED snapVars
    /\ UNCHANGED queueVars
    /\ UNCHANGED travVars
    /\ UNCHANGED valVars

\* items = await getQueueItems(): the store answers, or the call fails and
\* processNext reports the failure and returns.
FetchListing(p) ==
    /\ proc[p].pc = "list"
    /\ \/ /\ proc' = [proc EXCEPT ![p].pc = "listed",
                                  ![p].items = getQueueItems(store)]
          /\ hist' = [hist EXCEPT ![p].listing =
                         IF \E i \in Items : store[i].status = "pending"
                         THEN "pending" ELSE "nopending"]
          /\ UNCHANGED budget
       \/ /\ CanFail
          /\ budget' = budget - 1
          /\ proc' = [proc EXCEPT ![p].pc = "ret"]
          /\ hist' = [hist EXCEPT ![p].failed = @ \cup {"list"},
                                  ![p].cause = "list",
                                  ![p].firstError = MsgList,
                                  ![p].reported = MsgList]
    /\ UNCHANGED <<running, timeoutHandle, store>>
    /\ UNCHANGED builderVars
    /\ UNCHANGED snapVars
    /\ UNCHANGED queueVars
    /\ UNCHANGED travVars
    /\ UNCHANGED valVars

\* onStatusChange(items); filter pending, sort by order, take the first.
SelectPending(p) ==
    /\ proc[p].pc = "listed"
    /\ IF PendingSorted(proc[p].items) = <<>>
       THEN proc' = [proc EXCEPT ![p].pc = "ret", ![p].items = <<>>]
       ELSE proc' = [proc EXCEPT ![p].pc = "setBuilding", ![p].items = <<>>,
                                 ![p].item = SelectItem(proc[p].items)]
    /\ UNCHANGED <<running, timeoutHandle, store, hist, budget>>
    /\ UNCHANGED builderVars
    /\ UNCHANGED snapVars
    /\ UNCHANGED queueVars
    /\ UNCHANGED travVars
    /\ UNCHANGED valVars

\* await setItemStatus(item.id, 'building'); onBuildStart(updatedItem)
WriteBuilding(p) ==
    /\ proc[p].pc = "setBuilding"
    /\ \E o \in StatusOutcomes :
         /\ o # "ok" => CanFail
         /\ budget' = IF o = "ok" THEN budget ELSE budget - 1
         /\ store' = setItemStatus(store, proc[p].item, "building", "", o)
         /\ IF o = "ok"
            THEN /\ proc' = [proc EXCEPT ![p].pc = "refresh"]
                 /\ hist' = [hist EXCEPT ![p].started = TRUE,
                                         ![p].wrote = @ \cup {"building"}]
            ELSE /\ proc' = [proc EXCEPT ![p].pc = "setError",
                                         ![p].error = ThrownBy(o)]
                 /\ hist' = [hist EXCEPT ![p].failed = @ \cup {"building"},
                                         ![p].wrote = @ \cup {"building"},
                                         ![p].cause = "building",
                                         ![p].firstError = ThrownBy(o)]
    /\ UNCHANGED <<running, timeoutHandle>>
    /\ UNCHANGED builderVars
    /\ UNCHANGED snapVars
    /\ UNCHANGED queueVars
    /\ UNCHANGED travVars
    /\ UNCHANGED valVars

\* try { refreshed = await getQueueItems(); onStatusChange } catch {}
RefreshListing(p) ==
    /\ proc[p].pc = "refresh"
    /\ proc' = [proc EXCEPT ![p].pc = "getItem"]
    /\ \/ UNCHANGED <<hist, budget>>
       \/ /\ CanFail
          /\ budget' = budget - 1
          /\ hist' = [hist EXCEPT ![p].failed = @ \cup {"refresh"}]
    /\ UNCHANGED <<running, timeoutHandle, store>>
    /\ UNCHANGED builderVars
    /\ UNCHANGED snapVars
    /\ UNCHANGED queueVars
    /\ UNCHANGED travVars
    /\ UNCHANGED valVars

\* fullItem = await getQueueItem(item.id); plan = JSON.parse(fullItem.plan);
\* then executeBuildPlan(plan) is entered.
FetchItemAndParse(p) ==
    /\ proc[p].pc = "getItem"
    /\ \/ /\ CanFail
          /\ budget' = budget - 1
          /\ proc' = [proc EXCEPT ![p].pc = "setError", ![p].error = MsgGetItem]
          /\ hist' = [hist EXCEPT ![p].failed = @ \cup {"getItem"},
                                  ![p].cause = "getItem",
                                  ![p].firstError = MsgGetItem]
       \/ /\ ~ParsesAsJson(store[proc[p].item].plan)
          /\ proc' = [proc EXCEPT ![p].pc = "setError", ![p].error = MsgParse]
          /\ hist' = [hist EXCEPT ![p].cause = "parse",
                                  ![p].firstError = MsgParse]
          /\ UNCHANGED budget
       \/ /\ ParsesAsJson(store[proc[p].item].plan)
          /\ proc' = [proc EXCEPT ![p].pc = "exec"]
          /\ hist' = [hist EXCEPT ![p].executed = TRUE]
          /\ UNCHANGED budget
    /\ UNCHANGED <<running, timeoutHandle, store>>
    /\ UNCHANGED builderVars
    /\ UNCHANGED snapVars
    /\ UNCHANGED queueVars
    /\ UNCHANGED travVars
    /\ UNCHANGED valVars

\* result = await executeBuildPlan(plan); if (!result.success) throw ...
ExecutePlan(p) ==
    /\ proc[p].pc = "exec"
    /\ \E r \in ExecResults(store[proc[p].item].plan) :
         IF BuildSucceeded(r)
         THEN /\ proc' = [proc EXCEPT ![p].pc = "setDone", ![p].result = r]
              /\ UNCHANGED hist
         ELSE /\ proc' = [proc EXCEPT ![p].pc = "setError", ![p].result = r,
                                      ![p].error = ResultMessage(r)]
              /\ hist' = [hist EXCEPT ![p].cause = "exec",
                                      ![p].firstError = ResultMessage(r)]
    /\ UNCHANGED <<running, timeoutHandle, store, budget>>
    /\ UNCHANGED builderVars
    /\ UNCHANGED snapVars
    /\ UNCHANGED queueVars
    /\ UNCHANGED travVars
    /\ UNCHANGED valVars

\* await setItemStatus(item.id, 'done'); onBuildComplete(...)
WriteDone(p) ==
    /\ proc[p].pc = "setDone"
    /\ \E o \in StatusOutcomes :
         /\ o # "ok" => CanFail
         /\ budget' = IF o = "ok" THEN budget ELSE budget - 1
         /\ store' = setItemStatus(store, proc[p].item, "done", "", o)
         /\ IF o = "ok"
            THEN /\ proc' = [proc EXCEPT ![p].pc = "final"]
                 /\ hist' = [hist EXCEPT ![p].completed = TRUE,
                                         ![p].wrote = @ \cup {"done"}]
            ELSE /\ proc' = [proc EXCEPT ![p].pc = "setError",
                                         ![p].error = ThrownBy(o)]
                 /\ hist' = [hist EXCEPT ![p].failed = @ \cup {"done"},
                                         ![p].wrote = @ \cup {"done"},
                                         ![p].cause = "done",
                                         ![p].firstError = ThrownBy(o)]
    /\ UNCHANGED <<running, timeoutHandle>>
    /\ UNCHANGED builderVars
    /\ UNCHANGED snapVars
    /\ UNCHANGED queueVars
    /\ UNCHANGED travVars
    /\ UNCHANGED valVars

\* catch: try { await setItemStatus(item.id, 'error', error.message) }
\* catch {}; onError(error)
WriteError(p) ==
    /\ proc[p].pc = "setError"
    /\ \E o \in StatusOutcomes :
         /\ o # "ok" => CanFail
         /\ budget' = IF o = "ok" THEN budget ELSE budget - 1
         /\ store' = setItemStatus(store, proc[p].item, "error",
                                   proc[p].error, o)
         /\ proc' = [proc EXCEPT ![p].pc = "final"]
         /\ hist' = [hist EXCEPT
                ![p].wrote = @ \cup {"error"},
                ![p].errWrite = proc[p].error,
                ![p].errStored =
                    IF Applied(o)
                    THEN <<store'[proc[p].item].status,
                           store'[proc[p].item].errorMessage>>
                    ELSE <<>>,
                ![p].errWriteFailed = (o # "ok"),
                ![p].failed = IF o = "ok" THEN @ ELSE @ \cup {"error"},
                ![p].reported = ReportedError(proc[p].error, ThrownBy(o))]
    /\ UNCHANGED <<running, timeoutHandle>>
    /\ UNCHANGED builderVars
    /\ UNCHANGED snapVars
    /\ UNCHANGED queueVars
    /\ UNCHANGED travVars
    /\ UNCHANGED valVars

\* try { finalItems = await getQueueItems(); onStatusChange } catch {}
FinalRefresh(p) ==
    /\ proc[p].pc = "final"
    /\ proc' = [proc EXCEPT ![p].pc = "ret"]
    /\ \/ UNCHANGED <<hist, budget>>
       \/ /\ CanFail
          /\ budget' = budget - 1
          /\ hist' = [hist EXCEPT ![p].failed = @ \cup {"final"}]
    /\ UNCHANGED <<running, timeoutHandle, store>>
    /\ UNCHANGED builderVars
    /\ UNCHANGED snapVars
    /\ UNCHANGED queueVars
    /\ UNCHANGED travVars
    /\ UNCHANGED valVars

\* processNext has returned: the timer callback re-arms while running, the
\* button handler just ends.  (The continuation is a microtask of the same
\* turn; a start/stop between the two is equivalent to one just before or
\* just after.)
TickReturn(p) ==
    /\ proc[p].pc = "ret"
    /\ IF proc[p].kind = "timer" /\ ShouldRearm(running, hist[p])
       THEN scheduleNext(p, POLL_INTERVAL_MS)
       ELSE /\ proc' = [proc EXCEPT ![p] = IdleProc]
            /\ UNCHANGED timeoutHandle
    /\ hist' = [hist EXCEPT ![p] = NoHist]
    /\ UNCHANGED <<running, store, budget>>
    /\ UNCHANGED builderVars
    /\ UNCHANGED snapVars
    /\ UNCHANGED queueVars
    /\ UNCHANGED travVars
    /\ UNCHANGED valVars

\* ------------------------------------------------------------ the builder

MsgVersion   == "BuildPlan.version must be 1.0"
MsgDuplicate == "BuildPlan.styles contains duplicate style name"
MsgNoTree    == "BuildPlan.tree is required"

StyleNames == {"hero", "card"}

\* The setProperties calls of one style, in the order createStyles issues
\* them: main properties, then breakpoints, then pseudo states.
WriteLists == {<<>>, <<"main", "breakpoint", "pseudo">>}

\* StyleDef: the name and the property maps that are not empty.
StyleDefs == [name : StyleNames, writes : WriteLists]

SeqsUpTo(S, n) == UNION {[1..k -> S] : k \in 0..n}

\* An element tree is the preorder list of its nodes, each with the index
\* of its parent (0 for the root): the nested children arrays, flattened.
RECURSIVE IsAncestorOrSelf(_, _, _)
IsAncestorOrSelf(par, a, i) ==
    IF i = 0 THEN FALSE
    ELSE IF a = i THEN TRUE
    ELSE IsAncestorOrSelf(par, a, par[i])

ParentVectors(n) ==
    {par \in [1..n -> 0..n] :
        \A i \in 1..n :
           IF i = 1 THEN par[i] = 0
           ELSE /\ par[i] \in 1..(i - 1)
                /\ IsAncestorOrSelf(par, par[i], i - 1)}

\* ElementNode: the root carries the first class name, every other node the
\* second.
TreeOf(par) ==
    [i \in DOMAIN par |->
        [parent |-> par[i],
         className |-> IF i = 1 THEN "hero" ELSE "card"]]

Trees == UNION {{TreeOf(par) : par \in ParentVectors(n)} : n \in 0..MaxNodes}

\* node.children ?? [] of node i, in document order.
RECURSIVE ChildrenFrom(_, _, _)
ChildrenFrom(tree, i, j) ==
    IF j > Len(tree) THEN <<>>
    ELSE IF tree[j].parent = i
         THEN <<j>> \o ChildrenFrom(tree, i, j + 1)
         ELSE ChildrenFrom(tree, i, j + 1)

\* The children of node i, last first.
ChildrenReversed(tree, i) ==
    LET c == ChildrenFrom(tree, i, i + 1)
    IN  [k \in 1..Len(c) |-> c[Len(c) + 1 - k]]

Children(tree, i) == ChildrenFrom(tree, i, i + 1)

\* BuildPlan documents: the version, the style list and the tree (an empty
\* node list is a document without a tree).
Plans == [version : {"1.0", "0.9"},
          styles  : SeqsUpTo(StyleDefs, MaxStyles),
          tree    : Trees]

NoPlan == [version |-> "0.9", styles |-> <<>>, tree |-> <<>>]

\* The plan field of a queue item: text that JSON.parse accepts, holding a
\* document, or text it rejects.
Payloads == [parses : {TRUE}, doc : Plans] \cup {[parses |-> FALSE, doc |-> NoPlan]}

\* validate(plan): the message of the ValidationError it throws, NoError
\* when it returns the plan.  Checked in the order of the code: version,
\* duplicate style names, presence of the tree.
validate(doc) ==
    IF doc.version # "1.0" THEN MsgVersion
    ELSE IF \E i, j \in 1..Len(doc.styles) :
               i < j /\ doc.styles[i].name = doc.styles[j].name
         THEN MsgDuplicate
    ELSE IF Len(doc.tree) = 0 THEN MsgNoTree
    ELSE NoError

\* BuildResult
NoBuildResult == [success |-> FALSE, elementsCreated |-> 0,
                  stylesCreated |-> 0, stylesSkipped |-> 0, error |-> NoError]

\* partial?.field ?? 0
PartialCount(partial, field) ==
    IF field \in DOMAIN partial THEN partial[field] ELSE 0

failResult(error, partial) ==
    [success |-> FALSE,
     elementsCreated |-> PartialCount(partial, "elementsCreated"),
     stylesCreated   |-> PartialCount(partial, "stylesCreated"),
     stylesSkipped   |-> PartialCount(partial, "stylesSkipped"),
     error |-> error]

\* A style of the canvas: absent, or present with the property groups set
\* on it and the executor call that created it (0: it was there before).
NoStyle  == [present |-> FALSE, props |-> {}, by |-> 0]
OldStyle == [present |-> TRUE,  props |-> {}, by |-> 0]

\* selectedEl = null, parent = null: no element.
NoElement == 0

\* An element that was on the page before any build: a child of the root
\* element, without children of its own.
OldElement ==
    [node |-> 0, parent |-> NoElement, place |-> "page", tag |-> TRUE,
     styles |-> {}, by |-> 0, kids |-> <<>>]

\* Canvases before the first build: the style of the first class name
\* exists or no style does; the page (the children of the root element, in
\* order) holds two elements and no element of a build; the first of the two
\* is selected, or none is.
Canvases ==
    [styles   : {st \in [StyleNames -> {NoStyle, OldStyle}] :
                    st["card"] = NoStyle},
     elems    : {<<OldElement, OldElement>>},
     page     : {<<1, 2>>},
     selected : {NoElement, 1}]

EmptyCanvas ==
    [styles |-> [n \in StyleNames |-> NoStyle], elems |-> <<>>,
     page |-> <<>>, selected |-> NoElement]

\* The executeBuildPlan call: its program point, its locals, the locals of
\* createStyles (k, created, skipped) and of the buildTree calls in progress
\* (stack), and what the call has done so far (stages, attempted, outcomes,
\* failedNodes, builtNodes, anchorFailed, since the canvas `before`).
IdleEx ==
    [pc |-> "idle", run |-> 0, plan |-> NoPlan, anchor |-> NoElement,
     stylesCreated |-> 0, stylesSkipped |-> 0, elementsCreated |-> 0,
     k |-> 1, created |-> 0, skipped |-> 0, stack |-> <<>>,
     result |-> NoBuildResult, raised |-> FALSE,
     stages |-> <<>>, attempted |-> <<>>, outcomes |-> <<>>,
     failedNodes |-> {}, builtNodes |-> {}, anchorFailed |-> FALSE,
     before |-> EmptyCanvas]

\* The stage after a stage of executeBuildPlan.
NextStage(stage) ==
    CASE stage = "validate" -> "select"
      [] stage = "select"   -> "styles"
      [] stage = "styles"   -> "tree"
      [] OTHER              -> "return"

\* A validation failure that does not stop the build.
OnThrowIgnoreInvalid(stage) ==
    IF stage = "validate" THEN "continue" ELSE "fail"

\* The tree stage without its try/catch.
OnThrowTreeUncaught(stage) ==
    IF stage = "select" THEN "continue"
    ELSE IF stage = "tree" THEN "raise" ELSE "fail"

\* A failed selection read that aborts the build.
OnThrowAnchorFatal(stage) == "fail"

\* What the catch block around a stage does with the exception: return a
\* failResult, or (selection read) log it and go on.  No stage is outside a
\* try block.
OnThrow(stage) ==
    IF stage = "select" THEN "continue" ELSE "fail"

\* The executor call e after its stage threw an exception with message msg.
Thrown(e, stage, msg) ==
    CASE OnThrow(stage) = "fail" ->
            [e EXCEPT !.pc = "return",
                      !.result = failResult(msg,
                          IF stage = "validate" THEN <<>>
                          ELSE IF stage = "styles"
                          THEN [stylesCreated |-> e.stylesCreated,
                                stylesSkipped |-> e.stylesSkipped]
                          ELSE [stylesCreated |-> e.stylesCreated,
                                stylesSkipped |-> e.stylesSkipped,
                                elementsCreated |-> e.elementsCreated])]
      [] OnThrow(stage) = "raise" ->
            [e EXCEPT !.pc = "return", !.raised = TRUE]
      [] OTHER ->
            [e EXCEPT !.pc = NextStage(stage)]

AddStage(stages, s) ==
    IF stages # <<>> /\ stages[Len(stages)] = s THEN stages
    ELSE Append(stages, s)

\* An ended call as its caller sees it, with the canvas before and after.
EndedRun(e, called, before) ==
    [called |-> called, before |-> before, after |-> canvas, frame |-> e]

\* plan = JSON.parse(fullItem.plan); result = await executeBuildPlan(plan):
\* a payload that does not parse throws in the caller, before the call.
ParsePayload ==
    /\ ex.pc = "idle"
    /\ Len(runs) < MaxRuns
    /\ IF payload.parses
       THEN /\ ex' = [IdleEx EXCEPT !.pc = "validate", !.run = Len(runs) + 1,
                                    !.plan = payload.doc, !.before = canvas]
            /\ UNCHANGED runs
       ELSE /\ runs' = Append(runs, EndedRun(IdleEx, FALSE, canvas))
            /\ UNCHANGED ex
    /\ UNCHANGED <<running, timeoutHandle, store, proc, hist, budget,
                   payload, canvas>>
    /\ UNCHANGED snapVars
    /\ UNCHANGED queueVars
    /\ UNCHANGED travVars
    /\ UNCHANGED valVars

\* Step 1: plan = validate(planJson), in a try block.
Validate ==
    /\ ex.pc = "validate"
    /\ LET msg == validate(ex.plan)
           e   == [ex EXCEPT !.stages = AddStage(@, "validate")]
       IN  ex' = IF msg = NoError
                 THEN [e EXCEPT !.pc = NextStage("validate")]
                 ELSE Thrown(e, "validate", msg)
    /\ UNCHANGED <<running, timeoutHandle, store, proc, hist, budget,
                   payload, canvas, runs>>
    /\ UNCHANGED snapVars
    /\ UNCHANGED queueVars
    /\ UNCHANGED travVars
    /\ UNCHANGED valVars

\* Step 2: selectedEl = await webflow.getSelectedElement(), in a try block.
getSelectedElement ==
    /\ ex.pc = "select"
    /\ LET e == [ex EXCEPT !.stages = AddStage(@, "select")]
       IN  \/ /\ ex' = [e EXCEPT !.pc = NextStage("select"),
                                 !.anchor = canvas.selected]
              /\ UNCHANGED budget
           \/ /\ CanFail
              /\ budget' = budget - 1
              /\ ex' = Thrown([e EXCEPT !.anchorFailed = TRUE],
                              "select", MsgCanvas)
    /\ UNCHANGED <<running, timeoutHandle, store, proc, hist,
                   payload, canvas, runs>>
    /\ UNCHANGED snapVars
    /\ UNCHANGED queueVars
    /\ UNCHANGED travVars
    /\ UNCHANGED valVars

\* How the loop body of createStyles can go for definition d: through
\* (at = "none"), or a canvas call throws: the lookup, the creation, or the
\* setProperties call after n of them succeeded.
StyleOutcomes(d) ==
    {[at |-> "none",   n |-> Len(d.writes)],
     [at |-> "lookup", n |-> 0],
     [at |-> "create", n |-> 0]}
    \cup {[at |-> "write", n |-> j - 1] : j \in 1..Len(d.writes)}

\* A lookup that never finds the style.
StyleExistsNever(cv, name) == FALSE

\* existing = await webflow.getStyleByName(styleDef.name); if (existing)
StyleExists(cv, name) == cv.styles[name].present

\* Property writes made whether or not the style existed.
AppliedWritesAlways(d, existing, o) ==
    IF o.at \in {"lookup", "create"} THEN {}
    ELSE {d.writes[j] : j \in 1..o.n}

\* The property groups the loop body sets on the style of d: none when the
\* style existed (continue) or a call before them threw.
AppliedWrites(d, existing, o) ==
    IF existing \/ o.at \in {"lookup", "create"} THEN {}
    ELSE {d.writes[j] : j \in 1..o.n}

\* A tally that counts every style createStyle returned.
CreatedTallyOnCreate(existing, o) ==
    IF ~existing /\ o.at \in {"none", "write"} THEN 1 ELSE 0

\* created++ is reached when no call of the loop body threw.
CreatedTally(existing, o) ==
    IF ~existing /\ o.at = "none" THEN 1 ELSE 0

\* A loop that counts no style as skipped.
SkippedTallyNone(existing, o) == 0

\* if (existing) { skipped++; continue }
SkippedTally(existing, o) ==
    IF existing /\ o.at # "lookup" THEN 1 ELSE 0

\* One iteration of the loop of createStyles, try/catch included.
CreateStyle ==
    /\ ex.pc = "styles"
    /\ ex.k <= Len(ex.plan.styles)
    /\ LET d == ex.plan.styles[ex.k]
           existing == StyleExists(canvas, d.name)
       IN  \E o \in StyleOutcomes(d) :
              /\ o.at # "none" => CanFail
              /\ existing => o.at \in {"none", "lookup"}
              /\ budget' = IF o.at = "none" THEN budget ELSE budget - 1
              /\ canvas' =
                   IF o.at = "lookup" THEN canvas
                   ELSE [canvas EXCEPT !.styles[d.name] =
                           [present |-> existing \/ o.at # "create",
                            props   |-> IF existing
                                        THEN @.props \cup AppliedWrites(d, existing, o)
                                        ELSE AppliedWrites(d, existing, o),
                            by      |-> IF existing \/ o.at = "create"
                                        THEN @.by ELSE ex.run]]
              /\ ex' = [ex EXCEPT
                     !.k = @ + 1,
                     !.created = @ + CreatedTally(existing, o),
                     !.skipped = @ + SkippedTally(existing, o),
                     !.stages = AddStage(@, "styles"),
                     !.attempted = Append(@, ex.k),
                     !.outcomes = Append(@, [name |-> d.name, at |-> o.at,
                                             existing |-> existing,
                                             before |-> canvas.styles[d.name]])]
    /\ UNCHANGED <<running, timeoutHandle, store, proc, hist, payload, runs>>
    /\ UNCHANGED snapVars
    /\ UNCHANGED queueVars
    /\ UNCHANGED travVars
    /\ UNCHANGED valVars

\* createStyles returns { created, skipped }; Step 3 of executeBuildPlan
\* stores the two counts.
StylesReturn ==
    /\ ex.pc = "styles"
    /\ ex.k > Len(ex.plan.styles)
    /\ ex' = [ex EXCEPT !.pc = NextStage("styles"),
                        !.stylesCreated = ex.created,
                        !.stylesSkipped = ex.skipped,
                        !.stages = AddStage(@, "styles")]
    /\ UNCHANGED <<running, timeoutHandle, store, proc, hist, budget,
                   payload, canvas, runs>>
    /\ UNCHANGED snapVars
    /\ UNCHANGED queueVars
    /\ UNCHANGED travVars
    /\ UNCHANGED valVars

\* How the body of buildTree before the children loop can go for a node:
\* through ("none"), or a canvas call throws: the insertion (after/append,
\* or getRootElement gives null), setTag, or one of the calls that follow
\* (getStyleByName, setStyles, setTextContent, setAttribute).
NodeOutcomes == {"none", "insert", "setTag", "setStyles"}

\* A root placed under the canvas root whether or not an anchor was given.
PlacementIgnoringAnchor(parent, depth) ==
    IF depth = 0 THEN "root" ELSE "append"

\* Where buildTree puts the new element: at depth 0 after the anchor
\* (parent.after) or, without one, under the root element (root.append);
\* deeper, inside its parent (parent.append).
Placement(parent, depth) ==
    IF depth = 0
    THEN IF parent # NoElement THEN "after" ELSE "root"
    ELSE "append"

\* Sequence seq with x put right after its entry a.
InsertAfter(seq, a, x) ==
    LET at == CHOOSE k \in 1..Len(seq) : seq[k] = a
    IN  SubSeq(seq, 1, at) \o <<x>> \o SubSeq(seq, at + 1, Len(seq))

\* The element a buildTree call has put on the canvas when it went as o,
\* with the element it is a child of (NoElement: the root element).
NewElement(node, parent, depth, className, o) ==
    [node |-> node,
     parent |-> IF Placement(parent, depth) = "append" THEN parent
                ELSE NoElement,
     place |-> Placement(parent, depth),
     tag |-> o \in {"none", "setStyles"},
     styles |-> IF o = "none" /\ StyleExists(canvas, className)
                THEN {className} ELSE {},
     by |-> ex.run,
     kids |-> <<>>]

\* The canvas after the call buildTree(node, parent, depth) went as o: the
\* element is the next sibling of the anchor, or the last child of the root
\* element or of its parent.
Materialized(node, parent, depth, className, o) ==
    LET new == Len(canvas.elems) + 1
        el  == NewElement(node, parent, depth, className, o)
    IN  IF o = "insert" THEN canvas
        ELSE [canvas EXCEPT
                !.elems = IF el.place = "append"
                          THEN Append([@ EXCEPT ![parent].kids = Append(@, new)], el)
                          ELSE Append(@, el),
                !.page  = CASE el.place = "after" -> InsertAfter(@, parent, new)
                            [] el.place = "root"  -> Append(@, new)
                            [] OTHER              -> @]

\* The frame of a buildTree call that has reached its children loop.
Frame(tree, node) ==
    [node |-> node, el |-> Len(canvas.elems) + 1, count |-> 1,
     todo |-> Children(tree, node)]

\* A children loop without its try/catch.
OnChildThrowRethrow(childNode) == "rethrow"

\* catch (err) { console.error(...); onProgress?.(...) }: the loop goes on.
OnChildThrow(childNode) == "continue"

\* A count of one per child, whatever the child built.
CountOnePerChild(count, childCount) == count + 1

\* count += childCount
CountAfterChild(count, childCount) == count + childCount

\* Step 4: buildTree(plan.tree, selectedEl, 0), up to its children loop.  An
\* exception leaves buildTree and is caught by executeBuildPlan.
BuildRoot ==
    /\ ex.pc = "tree"
    /\ ex.stack = <<>>
    /\ \E o \in NodeOutcomes :
         /\ o # "none" => CanFail
         /\ budget' = IF o = "none" THEN budget ELSE budget - 1
         /\ canvas' = Materialized(1, ex.anchor, 0,
                                   ex.plan.tree[1].className, o)
         /\ LET e == [ex EXCEPT !.stages = AddStage(@, "tree")]
            IN  ex' = IF o = "none"
                      THEN [e EXCEPT !.stack = <<Frame(ex.plan.tree, 1)>>,
                                     !.builtNodes = @ \cup {1}]
                      ELSE Thrown([e EXCEPT !.failedNodes = @ \cup {1}],
                                  "tree", MsgCanvas)
    /\ UNCHANGED <<running, timeoutHandle, store, proc, hist, payload, runs>>
    /\ UNCHANGED snapVars
    /\ UNCHANGED queueVars
    /\ UNCHANGED travVars
    /\ UNCHANGED valVars

\* One iteration of a children loop: buildTree(childNode, el, depth + 1) up
\* to its own children loop, or its exception caught by the loop.
BuildChild ==
    /\ ex.pc = "tree"
    /\ ex.stack # <<>>
    /\ ex.stack[Len(ex.stack)].todo # <<>>
    /\ LET top   == ex.stack[Len(ex.stack)]
           child == Head(top.todo)
           rest  == [ex.stack EXCEPT ![Len(ex.stack)].todo = Tail(@)]
       IN  \E o \in NodeOutcomes :
              /\ o # "none" => CanFail
              /\ budget' = IF o = "none" THEN budget ELSE budget - 1
              /\ canvas' = Materialized(child, top.el, Len(ex.stack),
                                        ex.plan.tree[child].className, o)
              /\ ex' = IF o = "none"
                       THEN [ex EXCEPT
                               !.stack = Append(rest, Frame(ex.plan.tree, child)),
                               !.builtNodes = @ \cup {child}]
                       ELSE IF OnChildThrow(child) = "continue"
                       THEN [ex EXCEPT !.stack = rest,
                                       !.failedNodes = @ \cup {child}]
                       ELSE Thrown([ex EXCEPT !.stack = <<>>,
                                              !.failedNodes = @ \cup {child}],
                                   "tree", MsgCanvas)
    /\ UNCHANGED <<running, timeoutHandle, store, proc, hist, payload, runs>>
    /\ UNCHANGED snapVars
    /\ UNCHANGED queueVars
    /\ UNCHANGED travVars
    /\ UNCHANGED valVars

\* return { element: el, count } of a child call; count += childCount in
\* its parent.
ChildReturns ==
    /\ ex.pc = "tree"
    /\ Len(ex.stack) > 1
    /\ ex.stack[Len(ex.stack)].todo = <<>>
    /\ LET n == Len(ex.stack)
       IN  ex' = [ex EXCEPT !.stack =
                     [SubSeq(ex.stack, 1, n - 1) EXCEPT
                        ![n - 1].count =
                            CountAfterChild(@, ex.stack[n].count)]]
    /\ UNCHANGED <<running, timeoutHandle, store, proc, hist, budget,
                   payload, canvas, runs>>
    /\ UNCHANGED snapVars
    /\ UNCHANGED queueVars
    /\ UNCHANGED travVars
    /\ UNCHANGED valVars

\* The root call returns: elementsCreated = treeResult.count; Step 5 builds
\* the success result.
TreeReturns ==
    /\ ex.pc = "tree"
    /\ Len(ex.stack) = 1
    /\ ex.stack[1].todo = <<>>
    /\ ex' = [ex EXCEPT
                !.pc = NextStage("tree"),
                !.stack = <<>>,
                !.elementsCreated = ex.stack[1].count,
                !.result = [success |-> TRUE,
                            elementsCreated |-> ex.stack[1].count,
                            stylesCreated |-> ex.stylesCreated,
                            stylesSkipped |-> ex.stylesSkipped,
                            error |-> NoError]]
    /\ UNCHANGED <<running, timeoutHandle, store, proc, hist, budget,
                   payload, canvas, runs>>
    /\ UNCHANGED snapVars
    /\ UNCHANGED queueVars
    /\ UNCHANGED travVars
    /\ UNCHANGED valVars

\* executeBuildPlan settles: its caller has the BuildResult (or the
\* exception).
ExecutorReturns ==
    /\ ex.pc = "return"
    /\ runs' = Append(runs, EndedRun(ex, TRUE, ex.before))
    /\ ex' = IdleEx
    /\ UNCHANGED <<running, timeoutHandle, store, proc, hist, budget,
                   payload, canvas>>
    /\ UNCHANGED snapVars
    /\ UNCHANGED queueVars
    /\ UNCHANGED travVars
    /\ UNCHANGED valVars

\* ------------------------------------------------------ the snapshot relay

Sites == {"siteA", "siteB"}

\* What the clock moves on by between two calls: steps that reach each TTL
\* from below, exactly and from above.
TimeSteps == {1, REQUEST_TTL_MS - 1, SNAPSHOT_TTL_MS}

\* Map.get of a site without an entry: undefined.
NoTimestamp == 0
NoSummary == [site |-> "none", capturedAt |-> 0]
NoSnapshot == [timestamp |-> NoTimestamp, summary |-> NoSummary]

\* const pending = new Map(); const snapshots = new Map();
EmptyRelay ==
    [pending   |-> [s \in Sites |-> NoTimestamp],
     snapshots |-> [s \in Sites |-> NoSnapshot]]

\* The call of checkAndSendSnapshot of the extension open on site s.
IdleTick == [pc |-> "idle", payload |-> NoSummary]

\* The last call made on the side channel and what it did: the site, the
\* answer, and what had happened by then.
\*   kind "check": GET /snapshot/pending by the extension (given: answered;
\*                 pending: the flag reported; age: time since the last
\*                 request; open: a request was made and no snapshot stored
\*                 since; ended: the call of checkAndSendSnapshot ends here)
\*   kind "post" : POST /snapshot by the extension (accepted: it arrived)
\*   kind "poll" : GET /snapshot by the requester (ok: a snapshot came back;
\*                 age: time since the last snapshot was stored; have: a
\*                 snapshot was stored and no request made since; same: the
\*                 snapshot that came back is the last one stored)
\*   changed: the relay's entries of another site, or the snapshots on a
\*            check, are not what they were.
NoEvent ==
    [kind |-> "none", site |-> "none", given |-> FALSE, pending |-> FALSE,
     age |-> 0, open |-> FALSE, ended |-> FALSE, accepted |-> FALSE,
     ok |-> FALSE, have |-> FALSE, same |-> FALSE, changed |-> FALSE]
NoSiteHist ==
    [requestedAt |-> 0,     \* when the last request for the site was made
     open        |-> FALSE, \* a request was made, no snapshot stored since
     submitted   |-> NoSnapshot, \* the last snapshot stored for the site
     have        |-> FALSE] \* a snapshot was stored, no request made since
NoSnapHist ==
    [advances |-> 0, requests |-> 0, last |-> NoEvent,
     site |-> [s \in Sites |-> NoSiteHist]]

\* No snapshot traffic: the state of the side channel the other
\* specifications stay in.
SnapshotAtRest ==
    /\ now = 1
    /\ relay = EmptyRelay
    /\ snapTick = [s \in Sites |-> IdleTick]
    /\ snapHist = NoSnapHist

othersAtRest ==
    UNCHANGED <<running, timeoutHandle, store, proc, hist, builderVars,
                travVars, valVars, queueVars>>

\* The entries of the sites other than s differ between two relay states.
OthersChanged(s, before, after) ==
    \E o \in Sites \ {s} : \/ after.pending[o] # before.pending[o]
                            \/ after.snapshots[o] # before.snapshots[o]

\* Time passes between two calls.
Advance ==
    /\ snapHist.advances < MaxAdvances
    /\ \E d \in TimeSteps : now' = now + d
    /\ snapHist' = [snapHist EXCEPT !.advances = @ + 1,
                                    !.last = [NoEvent EXCEPT !.kind = "wait"]]
    /\ UNCHANGED <<relay, snapTick, budget>>
    /\ othersAtRest

\* POST /snapshot/request: pending.set(siteId, Date.now());
\* snapshots.delete(siteId).
AfterRequest(rel, s, t) ==
    [rel EXCEPT !.pending[s] = t, !.snapshots[s] = NoSnapshot]

RequestSnapshot(s) ==
    /\ snapHist.requests < MaxRequests
    /\ relay' = AfterRequest(relay, s, now)
    /\ snapHist' = [snapHist EXCEPT
           !.requests = @ + 1,
           !.site[s].requestedAt = now,
           !.site[s].open = TRUE,
           !.site[s].have = FALSE,
           !.last = [NoEvent EXCEPT
               !.kind = "request", !.site = s,
               !.changed = OthersChanged(s, relay, relay')]]
    /\ UNCHANGED <<now, snapTick, budget>>
    /\ othersAtRest

\* GET /snapshot/pending:
\* isPending = !!ts && (Date.now() - ts) < REQUEST_TTL_MS.
RequestPendingInclusive(ts, t) ==
    ts # NoTimestamp /\ t - ts <= REQUEST_TTL_MS

RequestPending(ts, t) ==
    ts # NoTimestamp /\ t - ts < REQUEST_TTL_MS

\* if (!isPending) pending.delete(siteId).
AfterPendingCheck(rel, s, t) ==
    IF RequestPending(rel.pending[s], t)
    THEN rel
    ELSE [rel EXCEPT !.pending[s] = NoTimestamp]

\* if (!pending) return: the extension goes on to capture only on a flag.
ShouldCaptureAlways(isPending) == TRUE

ShouldCapture(isPending) == isPending

\* checkAndSendSnapshot, first await: fetch(`${relayUrl}/snapshot/pending`)
\* and the relay's handler.  A failed fetch or a non-ok answer ends the call.
FetchPending(s) ==
    /\ snapTick[s].pc = "idle"
    /\ \/ /\ CanFail
          /\ budget' = budget - 1
          /\ snapHist' = [snapHist EXCEPT !.last = [NoEvent EXCEPT
                 !.kind = "check", !.site = s, !.ended = TRUE,
                 !.open = snapHist.site[s].open,
                 !.age = now - snapHist.site[s].requestedAt]]
          /\ UNCHANGED <<relay, snapTick>>
       \/ LET isPending == RequestPending(relay.pending[s], now)
              after == AfterPendingCheck(relay, s, now)
          IN  /\ relay' = after
              /\ snapTick' = IF ShouldCapture(isPending)
                             THEN [snapTick EXCEPT ![s].pc = "capture"]
                             ELSE snapTick
              /\ snapHist' = [snapHist EXCEPT !.last = [NoEvent EXCEPT
                     !.kind = "check", !.site = s, !.given = TRUE,
                     !.pending = isPending,
                     !.open = snapHist.site[s].open,
                     !.age = now - snapHist.site[s].requestedAt,
                     !.ended = ~ShouldCapture(isPending),
                     !.changed = \/ OthersChanged(s, relay, after)
                                 \/ after.snapshots # relay.snapshots]]
              /\ UNCHANGED budget
    /\ UNCHANGED now
    /\ othersAtRest

\* const payload = await captureSnapshot(): never throws, and its summary
\* has at least one line.
captureSnapshot(s) ==
    /\ snapTick[s].pc = "capture"
    /\ snapTick' = [snapTick EXCEPT
           ![s].pc = "post",
           ![s].payload = [site |-> s, capturedAt |-> now]]
    /\ snapHist' = [snapHist EXCEPT !.last = [NoEvent EXCEPT
           !.kind = "capture", !.site = s]]
    /\ UNCHANGED <<now, relay, budget>>
    /\ othersAtRest

\* POST /snapshot: snapshots.set(siteId, { timestamp: Date.now(), summary,
\* pageInfo }); pending.delete(siteId).
AfterSubmit(rel, s, t, summary) ==
    [rel EXCEPT !.snapshots[s] = [timestamp |-> t, summary |-> summary],
                !.pending[s] = NoTimestamp]

\* checkAndSendSnapshot, last await: fetch(`${relayUrl}/snapshot`, POST)
\* and the relay's handler.  The answer is not looked at and a failed fetch
\* is caught.
PostSnapshot(s) ==
    /\ snapTick[s].pc = "post"
    /\ snapTick' = [snapTick EXCEPT ![s] = IdleTick]
    /\ \/ /\ CanFail
          /\ budget' = budget - 1
          /\ snapHist' = [snapHist EXCEPT !.last = [NoEvent EXCEPT
                 !.kind = "post", !.site = s, !.ended = TRUE]]
          /\ UNCHANGED relay
       \/ LET after == AfterSubmit(relay, s, now, snapTick[s].payload)
          IN  /\ relay' = after
              /\ snapHist' = [snapHist EXCEPT
                     !.site[s].submitted =
                         [timestamp |-> now, summary |-> snapTick[s].payload],
                     !.site[s].open = FALSE,
                     !.site[s].have = TRUE,
                     !.last = [NoEvent EXCEPT
                         !.kind = "post", !.site = s, !.ended = TRUE,
                         !.accepted = TRUE,
                         !.changed = OthersChanged(s, relay, after)]]
              /\ UNCHANGED budget
    /\ UNCHANGED now
    /\ othersAtRest

\* GET /snapshot: if (Date.now() - snap.timestamp > SNAPSHOT_TTL_MS).
SnapshotNeverExpires(ts, t) == FALSE

SnapshotExpired(ts, t) == t - ts > SNAPSHOT_TTL_MS

\* GET /snapshot: 404 without a snapshot, 404 and snapshots.delete(siteId)
\* for an expired one, the snapshot otherwise.
GetSnapshot(s) ==
    LET snap == relay.snapshots[s]
        ok == snap # NoSnapshot /\ ~SnapshotExpired(snap.timestamp, now)
        after == IF snap # NoSnapshot /\ ~ok
                 THEN [relay EXCEPT !.snapshots[s] = NoSnapshot]
                 ELSE relay
    IN  /\ relay' = after
        /\ snapHist' = [snapHist EXCEPT !.last = [NoEvent EXCEPT
               !.kind = "poll", !.site = s, !.ok = ok,
               !.age = now - snapHist.site[s].submitted.timestamp,
               !.have = snapHist.site[s].have,
               !.same = ok /\ snap = snapHist.site[s].submitted,
               !.changed = OthersChanged(s, relay, after)]]
        /\ UNCHANGED <<now, snapTick, budget>>
        /\ othersAtRest

\* --------------------------------------------------- the snapshot traversal

\* A canvas tree for the traversal: a spine of elements, one per depth from
\* the root (depth 0) down to depth Len(fans).  The spine element at depth d
\* has fans[d+1].n children, of which child number fans[d+1].heir is the
\* spine element at depth d + 1 and the others have no children.  The
\* children of the spine element at depth `unreadable` cannot be read
\* (getChildren throws), if there is such an element.
Fans == {[n |-> 1, heir |-> 1], [n |-> MAX_CHILDREN, heir |-> MAX_CHILDREN],
         [n |-> MAX_CHILDREN + 1, heir |-> 1],
         [n |-> MAX_CHILDREN + 2, heir |-> MAX_CHILDREN + 2]}

Readable == MaxSpine + 1

Doms ==
    {d \in [fans : SeqsUpTo(Fans, MaxSpine),
            unreadable : (0..(MaxSpine - 1)) \cup {Readable}] :
        d.unreadable = Readable \/ d.unreadable < Len(d.fans)}

NoDom == [fans |-> <<>>, unreadable |-> Readable]
NoLines == [done |-> FALSE, out |-> <<>>]

TraversalAtRest ==
    /\ dom = NoDom
    /\ lines = NoLines

\* children.length of the spine element at depth d.
FanAt(d, depth) == IF depth < Len(d.fans) THEN d.fans[depth + 1].n ELSE 0

\* lines.push(`${indent}${type}${classes}${textSnippet}`): the line of the
\* element at a depth, child number index of its parent.
ElementLine(depth, index, spine) ==
    [kind |-> "element", depth |-> depth, index |-> index, spine |-> spine,
     count |-> 0]

\* lines.push(`${indent}  … (${children.length - MAX_CHILDREN} more)`): the
\* summary line of the element at a depth.
MoreLine(depth, count) ==
    [kind |-> "more", depth |-> depth, index |-> 0, spine |-> TRUE,
     count |-> count]

\* if (depth >= MAX_DEPTH) return.
DepthReachedLate(depth) == depth > SNAPSHOT_MAX_DEPTH

DepthReached(depth) == depth >= SNAPSHOT_MAX_DEPTH

\* children.slice(0, MAX_CHILDREN).length.
Shown(n) == IF n > MAX_CHILDREN THEN MAX_CHILDREN ELSE n

\* traverseElement(el, depth, styleNames, lines), el the spine element at
\* that depth, and the loop over its shown children from child number c on.
RECURSIVE traverseElement(_, _, _)
RECURSIVE traverseChildren(_, _, _)
traverseChildren(d, depth, c) ==
    IF c > Shown(FanAt(d, depth))
    THEN <<>>
    ELSE (IF c = d.fans[depth + 1].heir
          THEN traverseElement(d, depth + 1, c)
          ELSE <<ElementLine(depth + 1, c, FALSE)>>)
         \o traverseChildren(d, depth, c + 1)

traverseElement(d, depth, index) ==
    LET n == FanAt(d, depth)
        own == <<ElementLine(depth, index, TRUE)>>
    IN  IF DepthReached(depth) \/ d.unreadable = depth \/ n = 0
        THEN own
        ELSE own \o traverseChildren(d, depth, 1)
                 \o (IF n > MAX_CHILDREN
                     THEN <<MoreLine(depth, n - MAX_CHILDREN)>>
                     ELSE <<>>)

\* captureSnapshot: await traverseElement(root, 0, styleNames, lines).
traverseRoot ==
    /\ ~lines.done
    /\ lines' = [done |-> TRUE, out |-> traverseElement(dom, 0, 1)]
    /\ UNCHANGED <<dom, budget>>
    /\ UNCHANGED <<running, timeoutHandle, store, proc, hist>>
    /\ UNCHANGED builderVars
    /\ UNCHANGED snapVars
    /\ UNCHANGED queueVars
    /\ UNCHANGED valVars

\* ----------------------------------------------------------- the validators

\* The keys of one property map of a document's style.
LonghandKey == "padding-top"

SHORTHAND_PROPERTIES ==
    {"padding", "margin", "border-radius", "gap", "row-gap", "column-gap",
     "background", "font", "border", "outline", "list-style", "animation"}

RELAY_SHORTHAND_PROPERTIES ==
    {"padding", "margin", "border-radius", "gap", "row-gap", "column-gap",
     "background", "font", "border", "outline", "list-style", "animation",
     "transition", "flex", "grid-template"}

CssKeys == RELAY_SHORTHAND_PROPERTIES \cup {LonghandKey}

\* Where the one key of the document's style is: in its properties, in the
\* map of one of its breakpoints, or in the map of one of its pseudo states.
\* The other maps of the style are empty or absent.
StyleMaps == {"properties", "breakpoints", "pseudo"}

NoStyles == [key |-> "none", where |-> "none"]

DocStyles == [key : CssKeys, where : StyleMaps] \cup {NoStyles}

VALID_ELEMENT_TYPES ==
    {"Section", "DivBlock", "Container", "Heading", "Paragraph", "TextBlock",
     "Button", "TextLink", "LinkBlock", "Image", "DOM"}

TEXT_REQUIRED_TYPES == {"Paragraph", "TextBlock", "Button", "TextLink"}

\* LinkBlock left out of the types that need an href.
LinkRequiredWithoutBlock == {"Button", "TextLink"}

LINK_REQUIRED_TYPES == {"Button", "TextLink", "LinkBlock"}

\* A node of a document's tree, with what the validators read of it:
\* headingLevel and level are numbers (NoLevel: the field is absent), text,
\* href, src and domTag are non-blank strings or absent, alt is absent, the
\* empty string or a text.  className is a kebab-case name throughout.
NoLevel == 0

Node(type) ==
    [type |-> type, headingLevel |-> NoLevel, level |-> NoLevel,
     text |-> type \in TEXT_REQUIRED_TYPES \cup {"Heading"},
     href |-> type \in {"Button", "TextLink", "LinkBlock"},
     src |-> type = "Image",
     alt |-> IF type = "Image" THEN "text" ELSE "absent",
     domTag |-> type = "DOM"]

\* The nodes other than Section and DivBlock that a document may have: each
\* type that has a required field, with the field as it should be, absent,
\* or out of range.
SpecialNodes ==
    {[Node("Heading") EXCEPT !.headingLevel = h[1], !.level = h[2]] :
        h \in {<<1, 1>>, <<6, NoLevel>>, <<NoLevel, 1>>, <<7, 7>>,
               <<NoLevel, NoLevel>>}}
    \cup {[Node(t) EXCEPT !.href = b] :
             t \in {"Button", "TextLink", "LinkBlock"}, b \in BOOLEAN}
    \cup {[Node("Image") EXCEPT !.src = i[1], !.alt = i[2]] :
             i \in {<<TRUE, "text">>, <<TRUE, "empty">>, <<FALSE, "text">>,
                    <<TRUE, "absent">>}}
    \cup {[Node("DOM") EXCEPT !.domTag = b] : b \in BOOLEAN}

\* A document's tree is a chain: nodes[1] is the root Section, nodes[k + 1]
\* the only child of nodes[k]; at most one node is not a DivBlock.
Chains ==
    UNION {
        {[k \in 1..n |-> Node(IF k = 1 THEN "Section" ELSE "DivBlock")]}
        \cup {[k \in 1..n |-> IF k = 1 THEN Node("Section")
                              ELSE IF k = at THEN sp
                              ELSE Node("DivBlock")] :
                 at \in 2..n, sp \in SpecialNodes}
        : n \in 1..MaxLevels}

\* The documents: version "1.0", siteId, sectionName and order as they
\* should be, no style or one, and a chain as the tree.  names are the
\* names of the styles in the order of the list; style is what the first of
\* them holds, the others hold longhand keys only.
Documents ==
    {[style |-> st, nodes |-> c,
      names |-> IF st = NoStyles THEN <<>> ELSE <<"hero">>] :
        st \in DocStyles, c \in Chains}

\* The documents with up to MaxNames styles of any names, the first of them
\* with a longhand key or a shorthand key, and a tree of one or two levels.
DocStyleNames == StyleNames \cup {"cta"}

NamedDocuments ==
    {[style |-> IF n = <<>> THEN NoStyles
                ELSE [key |-> k, where |-> "properties"],
      nodes |-> [i \in 1..l |-> Node(IF i = 1 THEN "Section" ELSE "DivBlock")],
      names |-> n] :
        n \in SeqsUpTo(DocStyleNames, MaxNames),
        k \in {LonghandKey, "padding"}, l \in 1..2}

NoDocument == [style |-> NoStyles, nodes |-> <<>>, names |-> <<>>]

\* What a validator says: the plan is returned, or a ValidationError is
\* thrown whose message cites a rule, names a field or key, and names a
\* path (the number of the node in the chain; NoPath if it names none).
NoPath == 0
Accepted == [ok |-> TRUE, rule |-> "none", field |-> "none", path |-> NoPath]
Rejected(rule, field, path) ==
    [ok |-> FALSE, rule |-> rule, field |-> field, path |-> path]
NoVerdict == [extension |-> <<>>, relay |-> <<>>]

ValidatorsAtRest ==
    /\ vdoc = NoDocument
    /\ verdict = NoVerdict

\* validateCSSProperties(props, context), on the map that holds the key.
validateCSSProperties(key, context) ==
    IF key \in SHORTHAND_PROPERTIES
    THEN Rejected("shorthand", key, NoPath)
    ELSE Accepted

\* validateStyleDef(style, index): properties, then each breakpoint's map,
\* then each pseudo state's map.
validateStyleDef(style) ==
    IF style = NoStyles
    THEN Accepted
    ELSE validateCSSProperties(style.key, style.where)

\* The per-type checks of validateElementNode, in the order of the code.
RequiredFields(el, path) ==
    IF el.type = "Heading" /\ el.headingLevel \notin 1..6
    THEN Rejected("field", "headingLevel", path)
    ELSE IF el.type \in TEXT_REQUIRED_TYPES \cup {"Heading"} /\ ~el.text
    THEN Rejected("field", "text", path)
    ELSE IF el.type \in LINK_REQUIRED_TYPES /\ ~el.href
    THEN Rejected("field", "href", path)
    ELSE IF el.type = "Image" /\ ~el.src
    THEN Rejected("field", "src", path)
    ELSE IF el.type = "Image" /\ el.alt = "absent"
    THEN Rejected("field", "alt", path)
    ELSE IF el.type = "DOM" /\ ~el.domTag
    THEN Rejected("field", "domTag", path)
    ELSE Accepted

\* validateElementNode(node, path, depth) on node number k of the chain,
\* which is at depth k.
RECURSIVE validateElementNode(_, _)
validateElementNode(nodes, k) ==
    IF k > MAX_DEPTH
    THEN Rejected("depth", "none", k)
    ELSE IF nodes[k].type \notin VALID_ELEMENT_TYPES
    THEN Rejected("type", "type", k)
    ELSE IF ~RequiredFields(nodes[k], k).ok
    THEN RequiredFields(nodes[k], k)
    ELSE IF k < Len(nodes)
    THEN validateElementNode(nodes, k + 1)
    ELSE Accepted

\* seenStyleNames.has(validated.name) with only the name of the entry just
\* before in the set.
SeenJustBefore(names, i) == i > 1 /\ names[i - 1] = names[i]

\* seenStyleNames.has(validated.name) at entry i of the styles.
SeenBefore(names, i) == \E j \in 1..(i - 1) : names[j] = names[i]

\* The forEach over plan.styles from entry i on: validateStyleDef of the
\* entry, then its name against the names seen.
RECURSIVE validateStyles(_, _)
validateStyles(doc, i) ==
    IF i > Len(doc.names)
    THEN Accepted
    ELSE IF i = 1 /\ ~validateStyleDef(doc.style).ok
    THEN validateStyleDef(doc.style)
    ELSE IF SeenBefore(doc.names, i)
    THEN Rejected("duplicate", doc.names[i], NoPath)
    ELSE validateStyles(doc, i + 1)

\* validate(plan) of the extension, on a document whose version, siteId,
\* sectionName and order pass: the styles, then the tree.
validatePlan(doc) ==
    IF ~validateStyles(doc, 1).ok
    THEN validateStyles(doc, 1)
    ELSE IF doc.nodes[1].type # "Section"
    THEN Rejected("root", "type", 1)
    ELSE validateElementNode(doc.nodes, 1)

\* walkNode(node, ancestorTypes, depth) of the relay on node number k of the
\* chain, which it has at depth k - 1.  No node has a styles field, and no
\* type of the document format is "Link".
RECURSIVE walkNode(_, _)
walkNode(nodes, k) ==
    IF k - 1 > RELAY_MAX_DEPTH
    THEN Rejected("depth", "none", NoPath)
    ELSE IF nodes[k].type = "Heading" /\ nodes[k].level \notin 1..6
    THEN Rejected("field", "level", NoPath)
    ELSE IF nodes[k].type = "Image" /\ ~nodes[k].src
    THEN Rejected("field", "src", NoPath)
    ELSE IF nodes[k].type = "Image" /\ nodes[k].alt = "absent"
    THEN Rejected("field", "alt", NoPath)
    ELSE IF k < Len(nodes)
    THEN walkNode(nodes, k + 1)
    ELSE Accepted

\* validateBuildPlan(plan) of the relay, on a document whose version and
\* siteId pass: the tree only.
validateBuildPlan(doc) ==
    IF doc.nodes[1].type # "Section"
    THEN Rejected("root", "type", NoPath)
    ELSE walkNode(doc.nodes, 1)

\* executeBuildPlan: plan = validate(planJson).
ExtensionValidates ==
    /\ verdict.extension = <<>>
    /\ verdict' = [verdict EXCEPT !.extension = <<validatePlan(vdoc)>>]
    /\ UNCHANGED <<vdoc, budget>>
    /\ UNCHANGED <<running, timeoutHandle, store, proc, hist>>
    /\ UNCHANGED builderVars
    /\ UNCHANGED snapVars
    /\ UNCHANGED queueVars
    /\ UNCHANGED travVars

\* POST /queue and the queue_build tool: validateBuildPlan(plan).
RelayValidates ==
    /\ verdict.relay = <<>>
    /\ verdict' = [verdict EXCEPT !.relay = <<validateBuildPlan(vdoc)>>]
    /\ UNCHANGED <<vdoc, budget>>
    /\ UNCHANGED <<running, timeoutHandle, store, proc, hist>>
    /\ UNCHANGED builderVars
    /\ UNCHANGED snapVars
    /\ UNCHANGED queueVars
    /\ UNCHANGED travVars

\* ------------------------------------------------------ the relay's queue routes

\* POST /queue/clear on the poller's store.  The route lists the items,
\* keeps those that are done or error, and deletes each of them by id; the
\* deletes are requests of their own and land one by one, while the
\* extension's callbacks run in between.  A deleted item keeps its place in
\* `store` and is noted in `removed` with the status it had when its delete
\* landed.
IdleClear == [pc |-> "idle", clearable |-> {}, removed |-> {}, failed |-> {},
              clears |-> 0, cleared |-> 0]

\* Ids the clear operation has deleted so far.
RemovedIds == {r.id : r \in clearOp.removed}

\* items.filter((i) => i.status === 'done' || i.status === 'error')
Clearable(items) ==
    {items[k].id : k \in {n \in DOMAIN items : items[n].status \in Terminal}}

\* items = await client.getQueueItems(); a failure answers 500.
ClearList ==
    /\ clearOp.pc = "idle"
    /\ clearOp.clears < MaxClears
    /\ \/ /\ clearOp' = [clearOp EXCEPT
                  !.pc = "deleting",
                  !.clearable = Clearable(getQueueItems(store)) \ RemovedIds,
                  !.failed = {},
                  !.clears = @ + 1]
          /\ UNCHANGED budget
       \/ /\ CanFail
          /\ budget' = budget - 1
          /\ clearOp' = [clearOp EXCEPT !.clears = @ + 1]
    /\ UNCHANGED <<running, timeoutHandle, store, proc, hist, cms>>
    /\ UNCHANGED builderVars
    /\ UNCHANGED snapVars
    /\ UNCHANGED travVars
    /\ UNCHANGED valVars

\* client.deleteItem(i.id) of one listed item: DELETE by id, whatever the
\* item's status has become.
ClearDelete(i) ==
    /\ clearOp.pc = "deleting"
    /\ i \in clearOp.clearable
    /\ \/ /\ clearOp' = [clearOp EXCEPT
                  !.clearable = @ \ {i},
                  !.removed = @ \cup {[id |-> i, status |-> store[i].status]}]
          /\ UNCHANGED budget
       \/ /\ CanFail
          /\ budget' = budget - 1
          /\ clearOp' = [clearOp EXCEPT !.clearable = @ \ {i},
                                        !.failed = @ \cup {i}]
    /\ UNCHANGED <<running, timeoutHandle, store, proc, hist, cms>>
    /\ UNCHANGED builderVars
    /\ UNCHANGED snapVars
    /\ UNCHANGED travVars
    /\ UNCHANGED valVars

\* Promise.allSettled has settled: the response counts the fulfilled deletes.
ClearReturns ==
    /\ clearOp.pc = "deleting"
    /\ clearOp.clearable = {}
    /\ clearOp' = [clearOp EXCEPT !.pc = "idle",
                                  !.cleared = Cardinality(clearOp.removed)]
    /\ UNCHANGED <<running, timeoutHandle, store, proc, hist, budget, cms>>
    /\ UNCHANGED builderVars
    /\ UNCHANGED snapVars
    /\ UNCHANGED travVars
    /\ UNCHANGED valVars

\* The queue collection as the relay's routes fill and empty it, with a
\* consumer that builds one item at a time.  An item's id is the number of
\* the POST /queue request that made it, counted as the requests arrive.
EmptyQueue == [items |-> <<>>, posts |-> {}, subs |-> 0,
               last |-> [id |-> 0, passed |-> {}]]

QueueAtRest ==
    /\ clearOp = IdleClear
    /\ cms = EmptyQueue

\* order = existing.length + 1
AssignedOrder(existing) == Len(existing) + 1

\* The sequence without its k-th element.
RemoveAt(seq, k) == SubSeq(seq, 1, k - 1) \o SubSeq(seq, k + 1, Len(seq))

\* Pending items a request that arrived earlier than item id has made.
EarlierPending(items, id) ==
    {items[k].id : k \in {n \in DOMAIN items :
                            /\ items[n].status = "pending"
                            /\ items[n].id < id}}

queueOthersAtRest ==
    /\ UNCHANGED <<running, timeoutHandle, store, proc, hist, clearOp>>
    /\ UNCHANGED builderVars
    /\ UNCHANGED snapVars
    /\ UNCHANGED travVars
    /\ UNCHANGED valVars

\* POST /queue up to its second await: the plan is valid, the items are
\* listed and the order is computed; a failed listing leaves order = 1.
PostQueueLists ==
    /\ cms.subs < MaxSubmissions
    /\ \/ /\ cms' = [cms EXCEPT
                  !.subs = @ + 1,
                  !.posts = @ \cup {[id |-> cms.subs + 1,
                                     order |-> AssignedOrder(cms.items)]}]
          /\ UNCHANGED budget
       \/ /\ CanFail
          /\ budget' = budget - 1
          /\ cms' = [cms EXCEPT
                  !.subs = @ + 1,
                  !.posts = @ \cup {[id |-> cms.subs + 1, order |-> 1]}]
    /\ queueOthersAtRest

\* client.addQueueItem({ name, plan, order }): the item is created pending;
\* a failure answers 500 and nothing is added.
PostQueueAdds(r) ==
    /\ r \in cms.posts
    /\ \/ /\ cms' = [cms EXCEPT
                  !.posts = @ \ {r},
                  !.items = Append(@, [id |-> r.id, order |-> r.order,
                                       status |-> "pending"])]
          /\ UNCHANGED budget
       \/ /\ CanFail
          /\ budget' = budget - 1
          /\ cms' = [cms EXCEPT !.posts = @ \ {r}]
    /\ queueOthersAtRest

\* DELETE /queue/:itemId: client.deleteItem(itemId), whatever its status.
DeleteRoute(k) ==
    /\ k \in DOMAIN cms.items
    /\ cms' = [cms EXCEPT !.items = RemoveAt(@, k)]
    /\ UNCHANGED budget
    /\ queueOthersAtRest

\* One delete of a clear request landing on an item that is done or error.
\* No status leaves done or error here, so the item has the status the
\* request listed it with.
ClearRouteDeletes(k) ==
    /\ k \in DOMAIN cms.items
    /\ cms.items[k].status \in Terminal
    /\ cms' = [cms EXCEPT !.items = RemoveAt(@, k)]
    /\ UNCHANGED budget
    /\ queueOthersAtRest

\* processNext of a consumer that runs one tick at a time: the pending items
\* sorted by order, the first one taken and written building.
ConsumerSelects ==
    /\ \A k \in DOMAIN cms.items : cms.items[k].status # "building"
    /\ PendingSorted(cms.items) # <<>>
    /\ LET id == SelectItem(cms.items)
           k  == CHOOSE n \in DOMAIN cms.items : cms.items[n].id = id
       IN  cms' = [cms EXCEPT
                  !.items[k].status = "building",
                  !.last = [id |-> id,
                            passed |-> EarlierPending(cms.items, id)]]
    /\ UNCHANGED budget
    /\ queueOthersAtRest

\* The tick ends: the item is written done or error.
ConsumerFinishes(k) ==
    /\ k \in DOMAIN cms.items
    /\ cms.items[k].status = "building"
    /\ \E status \in Terminal :
          cms' = [cms EXCEPT !.items[k].status = status]
    /\ UNCHANGED budget
    /\ queueOthersAtRest

\* ---------------------------------------------------------- specification

\* Queues of n pending items, any order values and the given payloads.
QueueItems(n, plans) ==
    [1..n -> [status : {"pending"}, errorMessage : {""},
              order : 1..n, plan : plans]]

\* Queues as POST /queue fills them: order = number of existing items + 1.
SubmittedQueues(n) ==
    {q \in QueueItems(n, PlanKinds) : \A i \in 1..n : q[i].order = i}

Init ==
    /\ running = FALSE
    /\ timeoutHandle = 0
    /\ store \in SubmittedQueues(NumItems)
    /\ proc = [p \in 1..MaxProcs |-> IdleProc]
    /\ hist = [p \in 1..MaxProcs |-> NoHist]
    /\ budget = MaxFailures
    /\ payload = [parses |-> FALSE, doc |-> NoPlan]
    /\ canvas = EmptyCanvas
    /\ ex = IdleEx
    /\ runs = <<>>
    /\ SnapshotAtRest
    /\ TraversalAtRest
    /\ ValidatorsAtRest
    /\ QueueAtRest

Next ==
    \/ start
    \/ stop
    \/ handleBuildNext
    \/ \E p \in Procs : TimerFire(p)
    \/ \E p \in Procs : checkAndSendSnapshot(p)
    \/ \E p \in Procs : FetchListing(p)
    \/ \E p \in Procs : SelectPending(p)
    \/ \E p \in Procs : WriteBuilding(p)
    \/ \E p \in Procs : RefreshListing(p)
    \/ \E p \in Procs : FetchItemAndParse(p)
    \/ \E p \in Procs : ExecutePlan(p)
    \/ \E p \in Procs : WriteDone(p)
    \/ \E p \in Procs : WriteError(p)
    \/ \E p \in Procs : FinalRefresh(p)
    \/ \E p \in Procs : TickReturn(p)

Spec == Init /\ [][Next]_vars

TypeOK ==
    /\ running \in BOOLEAN
    /\ timeoutHandle \in 0..MaxProcs
    /\ \A i \in Items : store[i].status \in QueueStatus
    /\ \A p \in Procs : proc[p].pc \in TickPcs \cup {"idle", "armed", "ret"}
    /\ budget \in Nat


\* The selection scenario: one poller slot, SelItems items in every order.
InitSel ==
    /\ running = FALSE
    /\ timeoutHandle = 0
    /\ store \in QueueItems(SelItems, {"good"})
    /\ proc = [p \in 1..1 |-> IdleProc]
    /\ hist = [p \in 1..1 |-> NoHist]
    /\ budget = MaxFailures
    /\ payload = [parses |-> FALSE, doc |-> NoPlan]
    /\ canvas = EmptyCanvas
    /\ ex = IdleEx
    /\ runs = <<>>
    /\ SnapshotAtRest
    /\ TraversalAtRest
    /\ ValidatorsAtRest
    /\ QueueAtRest

SelSpec == InitSel /\ [][Next]_vars

\* Progress: the poller is started and never stopped, every enabled callback
\* eventually runs (the event loop starves no timer and no continuation),
\* and only LiveFailures store calls fail.
InitLive ==
    /\ running = FALSE
    /\ timeoutHandle = 0
    /\ store \in SubmittedQueues(NumItems)
    /\ proc = [p \in 1..1 |-> IdleProc]
    /\ hist = [p \in 1..1 |-> NoHist]
    /\ budget = LiveFailures
    /\ payload = [parses |-> FALSE, doc |-> NoPlan]
    /\ canvas = EmptyCanvas
    /\ ex = IdleEx
    /\ runs = <<>>
    /\ SnapshotAtRest
    /\ TraversalAtRest
    /\ ValidatorsAtRest
    /\ QueueAtRest

NextLive ==
    \/ start
    \/ \E p \in Procs : TimerFire(p)
    \/ \E p \in Procs : checkAndSendSnapshot(p)
    \/ \E p \in Procs : FetchListing(p)
    \/ \E p \in Procs : SelectPending(p)
    \/ \E p \in Procs : WriteBuilding(p)
    \/ \E p \in Procs : RefreshListing(p)
    \/ \E p \in Procs : FetchItemAndParse(p)
    \/ \E p \in Procs : ExecutePlan(p)
    \/ \E p \in Procs : WriteDone(p)
    \/ \E p \in Procs : WriteError(p)
    \/ \E p \in Procs : FinalRefresh(p)
    \/ \E p \in Procs : TickReturn(p)

LiveSpec == InitLive /\ [][NextLive]_vars /\ WF_vars(NextLive)

\* The builder on its own: a payload and a canvas, the executor called on
\* the payload up to MaxRuns times, one call after the other, while at most
\* CanvasFailures canvas calls fail.  The poller stands still.
InitBuild ==
    /\ running = FALSE
    /\ timeoutHandle = 0
    /\ store = [i \in 1..1 |-> [status |-> "pending", errorMessage |-> "",
                                order |-> 1, plan |-> "good"]]
    /\ proc = [p \in 1..1 |-> IdleProc]
    /\ hist = [p \in 1..1 |-> NoHist]
    /\ budget = CanvasFailures
    /\ payload \in Payloads
    /\ canvas \in Canvases
    /\ ex = IdleEx
    /\ runs = <<>>
    /\ SnapshotAtRest
    /\ TraversalAtRest
    /\ ValidatorsAtRest
    /\ QueueAtRest

NextBuild ==
    \/ ParsePayload
    \/ Validate
    \/ getSelectedElement
    \/ CreateStyle
    \/ StylesReturn
    \/ BuildRoot
    \/ BuildChild
    \/ ChildReturns
    \/ TreeReturns
    \/ ExecutorReturns

BuildSpec == InitBuild /\ [][NextBuild]_vars

\* The snapshot side channel on its own: requests, the extensions' ticks
\* and the requester's polls for two sites, in any interleaving, while the
\* clock moves on MaxAdvances times and at most MaxFailures fetches fail.
\* The poller and the builder stand still.
InitSnap ==
    /\ running = FALSE
    /\ timeoutHandle = 0
    /\ store = [i \in 1..1 |-> [status |-> "pending", errorMessage |-> "",
                                order |-> 1, plan |-> "good"]]
    /\ proc = [p \in 1..1 |-> IdleProc]
    /\ hist = [p \in 1..1 |-> NoHist]
    /\ budget = MaxFailures
    /\ payload = [parses |-> FALSE, doc |-> NoPlan]
    /\ canvas = EmptyCanvas
    /\ ex = IdleEx
    /\ runs = <<>>
    /\ SnapshotAtRest
    /\ TraversalAtRest
    /\ ValidatorsAtRest
    /\ QueueAtRest

NextSnap ==
    \/ Advance
    \/ \E s \in Sites : RequestSnapshot(s)
    \/ \E s \in Sites : FetchPending(s)
    \/ \E s \in Sites : captureSnapshot(s)
    \/ \E s \in Sites : PostSnapshot(s)
    \/ \E s \in Sites : GetSnapshot(s)

SnapSpec == InitSnap /\ [][NextSnap]_vars

\* The traversal on its own: a canvas tree, traversed once.
InitTrav ==
    /\ running = FALSE
    /\ timeoutHandle = 0
    /\ store = [i \in 1..1 |-> [status |-> "pending", errorMessage |-> "",
                                order |-> 1, plan |-> "good"]]
    /\ proc = [p \in 1..1 |-> IdleProc]
    /\ hist = [p \in 1..1 |-> NoHist]
    /\ budget = 0
    /\ payload = [parses |-> FALSE, doc |-> NoPlan]
    /\ canvas = EmptyCanvas
    /\ ex = IdleEx
    /\ runs = <<>>
    /\ SnapshotAtRest
    /\ dom \in Doms
    /\ lines = NoLines
    /\ ValidatorsAtRest
    /\ QueueAtRest

NextTrav == traverseRoot

TravSpec == InitTrav /\ [][NextTrav]_vars

\* The validators on their own: a document, validated by the relay when it
\* is submitted and by the extension when it is built.
InitVal ==
    /\ running = FALSE
    /\ timeoutHandle = 0
    /\ store = [i \in 1..1 |-> [status |-> "pending", errorMessage |-> "",
                                order |-> 1, plan |-> "good"]]
    /\ proc = [p \in 1..1 |-> IdleProc]
    /\ hist = [p \in 1..1 |-> NoHist]
    /\ budget = 0
    /\ payload = [parses |-> FALSE, doc |-> NoPlan]
    /\ canvas = EmptyCanvas
    /\ ex = IdleEx
    /\ runs = <<>>
    /\ SnapshotAtRest
    /\ TraversalAtRest
    /\ QueueAtRest
    /\ vdoc \in Documents
    /\ verdict = NoVerdict

NextVal ==
    \/ ExtensionValidates
    \/ RelayValidates

ValSpec == InitVal /\ [][NextVal]_vars

\* The validators on documents with several styles.
InitNamed ==
    /\ running = FALSE
    /\ timeoutHandle = 0
    /\ store = [i \in 1..1 |-> [status |-> "pending", errorMessage |-> "",
                                order |-> 1, plan |-> "good"]]
    /\ proc = [p \in 1..1 |-> IdleProc]
    /\ hist = [p \in 1..1 |-> NoHist]
    /\ budget = 0
    /\ payload = [parses |-> FALSE, doc |-> NoPlan]
    /\ canvas = EmptyCanvas
    /\ ex = IdleEx
    /\ runs = <<>>
    /\ SnapshotAtRest
    /\ TraversalAtRest
    /\ QueueAtRest
    /\ vdoc \in NamedDocuments
    /\ verdict = NoVerdict

NamedSpec == InitNamed /\ [][NextVal]_vars



\* A clear request on the poller's queue: the callbacks of the extension and
\* the steps of the route, in any order.  The run is followed until a delete
\* has landed; what the consumer makes of a deleted item is left out.
InitClear ==
    /\ running = FALSE
    /\ timeoutHandle = 0
    /\ store \in SubmittedQueues(NumItems)
    /\ \A i \in DOMAIN store : store[i].plan = "good"
    /\ proc = [p \in 1..MaxProcs |-> IdleProc]
    /\ hist = [p \in 1..MaxProcs |-> NoHist]
    /\ budget = MaxFailures
    /\ payload = [parses |-> FALSE, doc |-> NoPlan]
    /\ canvas = EmptyCanvas
    /\ ex = IdleEx
    /\ runs = <<>>
    /\ SnapshotAtRest
    /\ TraversalAtRest
    /\ ValidatorsAtRest
    /\ QueueAtRest

NextClear ==
    \/ ClearList
    \/ \E i \in Items : ClearDelete(i)
    \/ ClearReturns
    \/ /\ clearOp.removed = {}
       /\ Next

ClearSpec == InitClear /\ [][NextClear]_vars

\* The relay's queue on its own: submissions, deletes, clears and a consumer
\* that builds one item at a time, while at most MaxFailures store calls fail.
InitQueue ==
    /\ running = FALSE
    /\ timeoutHandle = 0
    /\ store \in SubmittedQueues(1)
    /\ \A i \in DOMAIN store : store[i].plan = "good"
    /\ proc = [p \in 1..1 |-> IdleProc]
    /\ hist = [p \in 1..1 |-> NoHist]
    /\ budget = MaxFailures
    /\ payload = [parses |-> FALSE, doc |-> NoPlan]
    /\ canvas = EmptyCanvas
    /\ ex = IdleEx
    /\ runs = <<>>
    /\ SnapshotAtRest
    /\ TraversalAtRest
    /\ ValidatorsAtRest
    /\ QueueAtRest

NextQueue ==
    \/ PostQueueLists
    \/ \E r \in cms.posts : PostQueueAdds(r)
    \/ \E k \in DOMAIN cms.items : DeleteRoute(k)
    \/ \E k \in DOMAIN cms.items : ClearRouteDeletes(k)
    \/ ConsumerSelects
    \/ \E k \in DOMAIN cms.items : ConsumerFinishes(k)

QueueSpec == InitQueue /\ [][NextQueue]_vars

\* ------------------------------------------------------------------ claims

\* Slot p takes a step of its tick.
Steps(p) == proc'[p] # proc[p]

NoPendingIn(items) == \A k \in 1..Len(items) : items[k].status # "pending"

\* The message of the failure that made processing of the item fail.
FailureMessage(p) ==
    CASE hist[p].cause = "parse"   -> MsgParse
      [] hist[p].cause = "getItem" -> MsgGetItem
      [] hist[p].cause = "exec"    -> proc[p].result.error
      [] OTHER                     -> NoError

\* C1: at most one invocation of processNext is between the selection of an
\* item and the end of its tick, so at most one build runs against the canvas.
C1_OneBuildAtATime ==
    Cardinality({p \in Procs : proc[p].pc \in ItemPcs}) <= 1

\* C2: every change of an item's stored status is pending -> building,
\* building -> done or building -> error.
C2_StatusMachine ==
    [][\A i \in Items :
          store'[i].status # store[i].status =>
             <<store[i].status, store'[i].status>> \in
                {<<"pending", "building">>, <<"building", "done">>,
                 <<"building", "error">>}]_vars

\* C3: once an item's stored status is done or error, the consumer never
\* writes that item again.
C3_TerminalAbsorbing ==
    [][\A i \in Items :
          store[i].status \in Terminal => store'[i] = store[i]]_vars

\* C4: the item a tick selects is a pending item of its listing with the
\* smallest order, a listing with a pending item always yields a selection,
\* the tick keeps that item, and only that item is ever written by the tick.
C4_SelectsSmallestPending ==
    [][\A p \in Procs :
        /\ (proc[p].pc = "listed" /\ Steps(p) /\ ~NoPendingIn(proc[p].items))
              => proc'[p].pc = "setBuilding"
        /\ (proc[p].pc = "listed" /\ proc'[p].pc = "setBuilding") =>
              \E k \in 1..Len(proc[p].items) :
                 /\ proc[p].items[k].id = proc'[p].item
                 /\ proc[p].items[k].status = "pending"
                 /\ \A j \in 1..Len(proc[p].items) :
                       proc[p].items[j].status = "pending"
                          => proc[p].items[k].order <= proc[p].items[j].order
        /\ (proc[p].pc \in ItemPcs /\ proc'[p].pc \in ItemPcs)
              => proc'[p].item = proc[p].item
        /\ (Steps(p) /\ store' # store) =>
              /\ proc[p].pc \in ItemPcs
              /\ \A i \in Items : i # proc[p].item => store'[i] = store[i]
    ]_vars

\* C4 witness: orders [3,1,2], all pending, and the tick holds the order=1 item.
C4_Witness ==
    /\ Items = 1..3
    /\ store[1].order = 3 /\ store[2].order = 1 /\ store[3].order = 2
    /\ \A i \in Items : store[i].status = "pending"
    /\ \E p \in Procs : proc[p].pc = "setBuilding" /\ proc[p].item = 2

\* C5: when the payload does not parse, the full-item fetch fails or the
\* executor returns success=false, the tick goes on to the error write, the
\* write carries that failure's message, and what it stores (when the store
\* takes it) is status error with that message.
C5_ErrorWriteCarriesFailure ==
    \A p \in Procs :
       hist[p].cause \in {"parse", "getItem", "exec"} =>
          /\ proc[p].pc \in {"setError", "final", "ret"}
          /\ proc[p].pc = "setError" => proc[p].error = FailureMessage(p)
          /\ proc[p].pc \in {"final", "ret"} =>
                /\ "error" \in hist[p].wrote
                /\ hist[p].errWrite = FailureMessage(p)
                /\ hist[p].errStored \in {<<>>, <<"error", FailureMessage(p)>>}

\* C5 witness: the executor failed and the item is stored as error with the
\* executor's error text.
C5_Witness ==
    \E p \in Procs :
       /\ proc[p].pc = "final"
       /\ hist[p].cause = "exec"
       /\ hist[p].errWrite = MsgCanvas
       /\ hist[p].errStored = <<"error", MsgCanvas>>
       /\ store[proc[p].item].status = "error"
       /\ store[proc[p].item].errorMessage = MsgCanvas

\* C6: the error given to onError, the message of the error write and the
\* message it stores are the first error thrown in the tick; when the error
\* write itself fails the tick still reports that first error and goes on.
C6_FirstFailureReported ==
    \A p \in Procs :
       /\ hist[p].reported # NoError => hist[p].reported = hist[p].firstError
       /\ hist[p].errWrite # NoError => hist[p].errWrite = hist[p].firstError
       /\ hist[p].errStored # <<>> => hist[p].errStored[2] = hist[p].firstError
       /\ (hist[p].firstError # NoError /\ proc[p].pc \in {"final", "ret"})
             => hist[p].reported = hist[p].firstError
       /\ hist[p].errWriteFailed =>
             /\ proc[p].pc \in {"final", "ret"}
             /\ hist[p].reported = hist[p].firstError
             /\ hist[p].reported # NoError

\* C6 witness: the error write failed and onError still got the parse error.
C6_Witness ==
    \E p \in Procs :
       /\ proc[p].pc = "final"
       /\ hist[p].errWriteFailed
       /\ hist[p].cause = "parse"
       /\ hist[p].reported = MsgParse

\* C7: a tick issues the done write only after its executor call returned
\* success=true; a tick whose payload did not parse or whose executor
\* returned success=false issues none; and an item whose payload does not
\* parse or validate is never stored as done.
C7_DoneOnlyAfterSuccess ==
    /\ \A p \in Procs :
          /\ proc[p].pc = "setDone" =>
                /\ proc[p].result.called
                /\ proc[p].result.success
                /\ hist[p].cause = "none"
          /\ "done" \in hist[p].wrote =>
                proc[p].result.called /\ proc[p].result.success
          /\ hist[p].completed => "done" \in hist[p].wrote
          /\ hist[p].cause \in {"parse", "exec"} =>
                "done" \notin hist[p].wrote /\ ~hist[p].completed
    /\ \A i \in Items : store[i].status = "done" => store[i].plan = "good"

\* C7 witness: the executor succeeded and the item is stored as done.
C7_Witness ==
    \E p \in Procs :
       /\ proc[p].pc = "final"
       /\ hist[p].completed
       /\ proc[p].result.success
       /\ store[proc[p].item].status = "done"

\* C8: a tick whose listing has no pending item selects nothing and returns:
\* no status write, no full-item fetch, no executor call, no onBuildStart,
\* onBuildComplete or onError.
C8_NoPendingNoEffect ==
    \A p \in Procs :
       hist[p].listing = "nopending" =>
          /\ proc[p].pc \in {"listed", "ret"}
          /\ proc[p].item = 0
          /\ proc[p].result = NoResult
          /\ hist[p].wrote = {}
          /\ hist[p].failed = {}
          /\ ~hist[p].executed
          /\ ~hist[p].started
          /\ ~hist[p].completed
          /\ hist[p].reported = NoError

\* C8 witness: a tick has returned from a listing of two items, none pending.
C8_Witness ==
    \E p \in Procs :
       /\ proc[p].pc = "ret"
       /\ hist[p].listing = "nopending"
       /\ \A i \in Items : store[i].status \in Terminal

\* C9: every pending item is eventually done or error, and every building
\* item eventually becomes done or error.
C9_EventuallyTerminal ==
    \A i \in 1..NumItems :
       /\ (store[i].status = "pending")  ~> (store[i].status \in Terminal)
       /\ (store[i].status = "building") ~> (store[i].status \in Terminal)

\* C10 as stated: every store failure of a tick is reported to onError, and
\* a timer tick that ends while running re-arms the timer with 5000 ms.
C10_EveryFailureReported ==
    [][\A p \in Procs :
        (proc[p].pc = "ret" /\ Steps(p)) =>
           /\ hist[p].failed # {} =>
                 /\ hist[p].reported # NoError
                 /\ hist[p].failed = {hist[p].cause}
           /\ (proc[p].kind = "timer" /\ running) =>
                 /\ proc'[p].pc = "armed"
                 /\ proc'[p].delay = 5000
    ]_vars

\* C10 amended: a failure of the first listing fetch, of the building or done
\* write or of the full-item fetch is reported to onError with its message
\* (a failed refresh fetch or error write is swallowed), and a timer tick
\* that ends while running re-arms the timer with 5000 ms whatever failed.
C10_FatalFailureReported ==
    [][\A p \in Procs :
        (proc[p].pc = "ret" /\ Steps(p)) =>
           /\ \A c \in hist[p].failed \cap {"list", "building", "getItem", "done"} :
                 /\ hist[p].cause = c
                 /\ hist[p].reported # NoError
                 /\ hist[p].reported = hist[p].firstError
           /\ (proc[p].kind = "timer" /\ running) =>
                 /\ proc'[p].pc = "armed"
                 /\ proc'[p].delay = 5000
                 /\ timeoutHandle' = p
    ]_vars

\* C10 witness: a timer tick whose listing fetch failed has reported it and
\* is about to re-arm.
C10_Witness ==
    \E p \in Procs :
       /\ proc[p].pc = "ret"
       /\ proc[p].kind = "timer"
       /\ running
       /\ hist[p].failed = {"list"}
       /\ hist[p].reported = MsgList

EndedCalls == {i \in 1..Len(runs) : runs[i].called}

\* The elements executor call i has put on canvas cv.
ElementsOf(cv, i) == {k \in 1..Len(cv.elems) : cv.elems[k].by = i}

\* The styles executor call i has created on canvas cv.
StylesOf(cv, i) == {n \in StyleNames : cv.styles[n].present /\ cv.styles[n].by = i}

ZeroCounts(result) ==
    /\ result.elementsCreated = 0
    /\ result.stylesCreated = 0
    /\ result.stylesSkipped = 0

\* C12: a payload that does not parse, or a plan that fails validation,
\* leaves the canvas as it was: the call made for it (if any) creates no
\* style and no element, returns success=false with zero counts, and never
\* goes past its validation stage.
C12_InvalidNeverMutates ==
    /\ \A i \in 1..Len(runs) :
          /\ (~runs[i].called \/ validate(runs[i].frame.plan) # NoError) =>
                /\ runs[i].after = runs[i].before
                /\ ElementsOf(runs[i].after, i) = {}
                /\ StylesOf(runs[i].after, i) = {}
                /\ runs[i].called =>
                      /\ ~runs[i].frame.result.success
                      /\ ZeroCounts(runs[i].frame.result)
                      /\ runs[i].frame.stages = <<"validate">>
          /\ ~payload.parses => ~runs[i].called
    /\ (ex.pc # "idle" /\ validate(ex.plan) # NoError) =>
          /\ canvas = ex.before
          /\ ex.pc \in {"validate", "return"}

\* C12 witness: a call on a document with two styles of the same name and a
\* tree has ended.
C12_Witness ==
    \E i \in EndedCalls :
       /\ validate(runs[i].frame.plan) = MsgDuplicate
       /\ Len(runs[i].frame.plan.tree) > 1
       /\ ~runs[i].frame.result.success

\* C13: executeBuildPlan never raises: every call that has ended returned a
\* BuildResult, with success=true and no error, or with success=false and an
\* error message, whatever canvas calls failed (the selection read, a style
\* lookup, creation or property write, an element insertion or setter).
C13_NeverRaises ==
    /\ \A i \in EndedCalls :
          /\ ~runs[i].frame.raised
          /\ IF runs[i].frame.result.success
             THEN runs[i].frame.result.error = NoError
             ELSE runs[i].frame.result.error # NoError
    /\ ~ex.raised

\* C13 witness: a call in which the selection read failed and then the root
\* element's build failed has returned its failure result.
C13_Witness ==
    \E i \in EndedCalls :
       /\ runs[i].frame.anchorFailed
       /\ 1 \in runs[i].frame.failedNodes
       /\ runs[i].frame.result.error = MsgCanvas

StageOrder == <<"validate", "select", "styles", "tree">>

\* What C14 says of one executor call e on canvas cv.
StagesInOrder(e, cv) ==
    /\ Len(e.stages) <= Len(StageOrder)
    /\ e.stages = SubSeq(StageOrder, 1, Len(e.stages))
    /\ validate(e.plan) # NoError =>
          (e.pc = "return" => /\ e.stages = <<"validate">>
                              /\ ZeroCounts(e.result))
    /\ StylesOf(cv, e.run) # {} => Len(e.stages) >= 3
    /\ ElementsOf(cv, e.run) # {} =>
          /\ Len(e.stages) = 4
          /\ e.k > Len(e.plan.styles)
          /\ e.stylesCreated = e.created
          /\ e.stylesSkipped = e.skipped
    /\ e.anchorFailed =>
          /\ e.anchor = NoElement
          /\ e.pc = "return" => Len(e.stages) = 4

Subtree(tree, i) ==
    {j \in DOMAIN tree :
        IsAncestorOrSelf([n \in DOMAIN tree |-> tree[n].parent], i, j)}

\* The nodes of the subtrees whose own build failed in call e.
FailedSubtrees(e) == UNION {Subtree(e.plan.tree, f) : f \in e.failedNodes}

\* C15: when the tree stage fails (the root call of buildTree throws) the
\* BuildResult has success=false, the counts of the style stage, and as
\* elementsCreated the number of elements the call had created.
C15_TreeFailureCounts ==
    \A i \in EndedCalls :
       1 \in runs[i].frame.failedNodes =>
          /\ ~runs[i].frame.result.success
          /\ runs[i].frame.result.stylesCreated = runs[i].frame.created
          /\ runs[i].frame.result.stylesSkipped = runs[i].frame.skipped
          /\ runs[i].frame.result.elementsCreated =
                Cardinality(ElementsOf(runs[i].after, i))

\* Consecutive calls that both ran createStyles on the payload's style list.
StyleCallPairs ==
    {i \in EndedCalls :
        /\ i + 1 \in EndedCalls
        /\ validate(runs[i].frame.plan) = NoError}

FailedAt(e, kinds) ==
    \E j \in 1..Len(e.outcomes) : e.outcomes[j].at \in kinds

AllSkipped(e) ==
    /\ e.created = 0
    /\ e.skipped = Len(e.plan.styles)

FullyApplied(cv, d, i) ==
    /\ cv.styles[d.name].present
    /\ cv.styles[d.name].by = i
    /\ cv.styles[d.name].props = {d.writes[j] : j \in 1..Len(d.writes)}

\* What C17 says of one call e on canvas cv.
StylesAllAttempted(e, cv) ==
    /\ e.attempted = [j \in 1..(e.k - 1) |-> j]
    /\ e.created =
          Cardinality({j \in 1..(e.k - 1) : FullyApplied(cv, e.plan.styles[j], e.run)})
    /\ e.created + e.skipped <= e.k - 1
    /\ e.k - 1 <= Len(e.plan.styles)
    /\ (e.pc = "return" /\ validate(e.plan) = NoError) =>
          /\ e.k - 1 = Len(e.plan.styles)
          /\ e.stages = StageOrder
          /\ e.result.stylesCreated = e.created
          /\ e.result.stylesSkipped = e.skipped

\* C17: createStyles attempts every style of the list in plan order
\* whatever fails on a style, returns normally (the executor goes on to the
\* tree stage with its counts), counts as created exactly the styles it
\* created with every property group applied, and created + skipped never
\* exceeds the number of styles.
C17_StyleFailureIsolated ==
    /\ ex.pc # "idle" => StylesAllAttempted(ex, canvas)
    /\ \A i \in EndedCalls : StylesAllAttempted(runs[i].frame, runs[i].after)

\* C17 witness: of two styles the first failed at a property write and the
\* second was created.
C17_Witness ==
    \E i \in EndedCalls :
       /\ Len(runs[i].frame.outcomes) = 2
       /\ runs[i].frame.outcomes[1].at = "write"
       /\ runs[i].frame.outcomes[2].at = "none"
       /\ runs[i].frame.result.stylesCreated = 1
       /\ runs[i].frame.result.stylesSkipped = 0

\* What C18 says of one call e on canvas cv.
ExistingUntouched(e, cv) ==
    /\ \A j \in 1..Len(e.outcomes) :
          e.outcomes[j].before.present =>
             cv.styles[e.outcomes[j].name] = e.outcomes[j].before
    /\ e.skipped =
          Cardinality({j \in 1..Len(e.outcomes) :
                          /\ e.outcomes[j].before.present
                          /\ e.outcomes[j].at # "lookup"})

\* C18: a style that exists when createStyles looks it up is left as it
\* was (not created again, no property group set on it) and is counted in
\* skipped.
C18_ExistingStyleUntouched ==
    /\ ex.pc # "idle" => ExistingUntouched(ex, canvas)
    /\ \A i \in EndedCalls : ExistingUntouched(runs[i].frame, runs[i].after)

\* C18 witness: a call skipped an existing style whose definition carries
\* property groups, and created the other style.
C18_Witness ==
    \E i \in EndedCalls :
       /\ runs[i].frame.skipped = 1
       /\ runs[i].frame.created = 1
       /\ \E j \in 1..Len(runs[i].frame.outcomes) :
             /\ runs[i].frame.outcomes[j].before.present
             /\ runs[i].frame.plan.styles[j].writes # <<>>

\* The nodes call e has finished with or is working on have an element on
\* canvas cv, tagged.
BuiltOnCanvas(e, cv) ==
    \A n \in e.builtNodes :
       \E k \in ElementsOf(cv, e.run) :
          cv.elems[k].node = n /\ cv.elems[k].tag

\* What C19 says of one call e on canvas cv.
ChildFailureCaught(e, cv) ==
    /\ BuiltOnCanvas(e, cv)
    /\ (e.pc = "tree" /\ e.builtNodes # {}) => e.stack # <<>>
    /\ (e.pc = "return" /\ validate(e.plan) = NoError) =>
          /\ e.result.success <=> 1 \notin e.failedNodes
          /\ 1 \notin e.failedNodes =>
                /\ e.builtNodes = DOMAIN e.plan.tree \ FailedSubtrees(e)
                /\ e.builtNodes \cap e.failedNodes = {}

\* C19: a failure of a child's own build is caught by its parent's loop;
\* the parent's call goes on and returns normally, every node outside the
\* failed subtrees (later siblings and their descendants included) is
\* built, and the tree stage fails exactly when the root's own build fails.
C19_ChildFailureCaught ==
    /\ ex.pc # "idle" => ChildFailureCaught(ex, canvas)
    /\ \A i \in EndedCalls : ChildFailureCaught(runs[i].frame, runs[i].after)

\* C19 witness: the first child of the root, which has a child of its own,
\* failed; its later sibling was built and the call succeeded.
C19_Witness ==
    \E i \in EndedCalls :
       /\ runs[i].frame.result.success
       /\ Len(runs[i].frame.plan.tree) = 4
       /\ runs[i].frame.plan.tree[3].parent = 2
       /\ runs[i].frame.plan.tree[4].parent = 1
       /\ runs[i].frame.failedNodes = {2}
       /\ runs[i].frame.builtNodes = {1, 4}

\* The nodes of the subtree of node n that lie in no failed subtree.
BuiltIn(e, n) == Subtree(e.plan.tree, n) \ FailedSubtrees(e)

\* What C20 says of one call e.
CountsBuiltNodes(e) ==
    /\ (e.stack # <<>> /\ e.stack[Len(e.stack)].todo = <<>>) =>
          e.stack[Len(e.stack)].count =
             Cardinality(BuiltIn(e, e.stack[Len(e.stack)].node))
    /\ \A d \in 1..Len(e.stack) :
          e.stack[d].count =
             1 + Cardinality(UNION {BuiltIn(e, c) :
                    c \in {c \in DOMAIN e.plan.tree :
                              /\ e.plan.tree[c].parent = e.stack[d].node
                              /\ c \in e.builtNodes
                              /\ \A u \in d + 1..Len(e.stack) :
                                    e.stack[u].node \notin Subtree(e.plan.tree, c)}})
    /\ (e.pc = "return" /\ e.result.success) =>
          e.result.elementsCreated =
             Len(e.plan.tree) - Cardinality(FailedSubtrees(e))

\* C20: the count of a buildTree call is 1 plus the counts of the children
\* that were built, so a call that returns has counted the nodes of its
\* subtree outside the failed subtrees, and elementsCreated of a successful
\* build is the number of nodes less the nodes of the failed subtrees.
C20_CountIsBuiltNodes ==
    /\ ex.pc # "idle" => CountsBuiltNodes(ex)
    /\ \A i \in EndedCalls : CountsBuiltNodes(runs[i].frame)

\* C20 witness: in a tree of four nodes two sibling subtrees failed, one of
\* them with a child, and the build reported one element.
C20_Witness ==
    \E i \in EndedCalls :
       /\ runs[i].frame.result.success
       /\ Len(runs[i].frame.plan.tree) = 4
       /\ runs[i].frame.plan.tree[3].parent = 2
       /\ runs[i].frame.failedNodes = {2, 4}
       /\ runs[i].frame.result.elementsCreated = 1

\* Entry x comes right after entry a in sequence seq.
RightAfter(seq, a, x) ==
    \E k \in 1..(Len(seq) - 1) : seq[k] = a /\ seq[k + 1] = x

\* The elements of canvas cv that hold element k as a child.
HoldersOf(cv, k) ==
    {h \in 1..Len(cv.elems) :
        \E j \in 1..Len(cv.elems[h].kids) : cv.elems[h].kids[j] = k}

OnPage(cv, k) == \E j \in 1..Len(cv.page) : cv.page[j] = k

\* What C21 says of the elements call e has put on canvas cv.
PlacedByPolicy(e, cv) ==
    \A k \in ElementsOf(cv, e.run) :
       IF cv.elems[k].node = 1
       THEN /\ HoldersOf(cv, k) = {}
            /\ cv.elems[k].parent = NoElement
            /\ IF e.anchor # NoElement
               THEN RightAfter(cv.page, e.anchor, k)
               ELSE cv.page # <<>> /\ cv.page[Len(cv.page)] = k
       ELSE /\ ~OnPage(cv, k)
            /\ HoldersOf(cv, k) = {cv.elems[k].parent}
            /\ cv.elems[k].parent \in ElementsOf(cv, e.run)
            /\ cv.elems[k].parent < k
            /\ cv.elems[cv.elems[k].parent].node =
                  e.plan.tree[cv.elems[k].node].parent
            /\ cv.elems[cv.elems[k].parent].node \in e.builtNodes
            /\ LET kids == cv.elems[cv.elems[k].parent].kids
               IN  \A a, b \in 1..Len(kids) : a < b => kids[a] < kids[b]

\* C21: the root element of a build is the next sibling of the anchor when
\* the call had one, and otherwise the last child of the canvas root; the
\* element of every other node is a child of the element built for the
\* node's parent, appended after the children that element had, and is
\* neither on the page next to the anchor nor under the canvas root.  (Stated
\* of the call in progress, up to and including its return.)
C21_PlacementPolicy ==
    ex.pc # "idle" => PlacedByPolicy(ex, canvas)

\* C21 witness: a build with an anchor has put its root between the anchor
\* and the element that followed it, and two children inside the root.
C21_Witness ==
    \E i \in EndedCalls :
       /\ runs[i].frame.anchor = 1
       /\ runs[i].frame.result.elementsCreated = 3
       /\ runs[i].after.page = <<1, 3, 2>>
       /\ runs[i].after.elems[3].kids = <<4, 5>>

\* What C22 says of call e on canvas cv.
DepthFirstLeftToRight(e, cv) ==
    /\ \A k, l \in ElementsOf(cv, e.run) :
          k < l => cv.elems[k].node < cv.elems[l].node
    /\ \A k \in ElementsOf(cv, e.run) :
          LET kids == cv.elems[k].kids
          IN  \A a, b \in 1..Len(kids) :
                 a < b => /\ cv.elems[kids[a]].node < cv.elems[kids[b]].node
                          /\ e.plan.tree[cv.elems[kids[a]].node].parent
                                = cv.elems[k].node
    /\ \A d \in 1..Len(e.stack) :
          /\ d > 1 => e.plan.tree[e.stack[d].node].parent = e.stack[d - 1].node
          /\ \A j \in 1..Len(e.stack[d].todo) :
                \A n \in e.builtNodes \cup e.failedNodes :
                   /\ n < e.stack[d].todo[j]
                   /\ d < Len(e.stack) =>
                         Subtree(e.plan.tree, e.stack[d + 1].node) \cap
                            Subtree(e.plan.tree, e.stack[d].todo[j]) = {}

\* C22: elements are created in the depth-first, left-to-right order of the
\* plan: every element before its descendants, the whole subtree of a child
\* before the next sibling is begun, and the children of an element stand on
\* the canvas in the order the plan lists them.  (Stated of the call in
\* progress, up to and including its return.)
C22_DepthFirstLeftToRight ==
    ex.pc # "idle" => DepthFirstLeftToRight(ex, canvas)

\* C22 witness: a root with two children, the first of which has a child,
\* was built whole: the four elements were created in plan order.
C22_Witness ==
    \E i \in EndedCalls :
       /\ runs[i].frame.result.elementsCreated = 4
       /\ runs[i].frame.plan.tree[3].parent = 2
       /\ runs[i].frame.plan.tree[4].parent = 1
       /\ runs[i].after.elems[3].kids = <<4, 6>>
       /\ runs[i].after.elems[4].kids = <<5>>


\* The last call on the snapshot side channel.
LastCall == snapHist.last

\* A request for the site of the last call is pending and unexpired: one was
\* made less than REQUEST_TTL_MS ago and no snapshot was stored since.
RequestOutstanding(e) == e.open /\ e.age < REQUEST_TTL_MS

\* The snapshot the extension of site s has just submitted.
OwnSnapshot(s, snap) ==
    /\ snap.timestamp = now
    /\ snap.summary.site = s
    /\ snap.summary.capturedAt \in 1..now

\* A call without a flag captures and submits nothing; a call goes on to
\* capture and submit exactly when the flag was reported.
CapturesOnlyOnFlag(e) ==
    e.kind = "check" =>
        /\ e.given /\ e.pending =>
               ~e.ended /\ snapTick[e.site].pc = "capture"
        /\ ~(e.given /\ e.pending) =>
               e.ended /\ snapTick[e.site].pc = "idle" /\ ~e.changed

\* A stored snapshot that is asked for before it expires and before a new
\* request comes back as it was stored.
PollReturnsSubmitted(e) ==
    e.kind = "poll" /\ e.have /\ e.age <= SNAPSHOT_TTL_MS => e.ok /\ e.same

C24_PendingWhileUnexpired ==
    LET e == LastCall
    IN  e.kind = "check" /\ e.given =>
            /\ e.pending <=> RequestOutstanding(e)
            /\ e.pending => relay.pending[e.site] # NoTimestamp
            /\ ~e.pending => relay.pending[e.site] = NoTimestamp

\* A request comes to be exactly 90 seconds old unanswered, and is reported
\* as not pending.
C24_Witness ==
    /\ LastCall.kind = "check" /\ LastCall.given
    /\ LastCall.open /\ LastCall.age = REQUEST_TTL_MS
    /\ ~LastCall.pending

\* C25: GET /snapshot never returns a snapshot older than 300 seconds: it
\* returns the stored snapshot exactly when one was stored no more than 300
\* seconds ago and no request was made since; a snapshot past that age is
\* dropped and not returned, and stays so until a new one is stored.
C25_NoStaleSnapshot ==
    LET e == LastCall
    IN  e.kind = "poll" =>
            /\ e.ok <=> e.have /\ e.age <= SNAPSHOT_TTL_MS
            /\ e.ok => /\ e.same
                       /\ now - relay.snapshots[e.site].timestamp
                              <= SNAPSHOT_TTL_MS
            /\ ~e.ok => relay.snapshots[e.site] = NoSnapshot

\* A stored snapshot is asked for when it is one millisecond past 300
\* seconds old, and does not come back.
C25_Witness ==
    /\ LastCall.kind = "poll" /\ LastCall.have
    /\ LastCall.age = SNAPSHOT_TTL_MS + 1
    /\ ~LastCall.ok


\* The lines of the traversal.
Out == lines.out

\* The spine element at a depth is listed.
Listed(depth) ==
    \E k \in 1..Len(Out) :
        Out[k].kind = "element" /\ Out[k].spine /\ Out[k].depth = depth

\* The summary lines of the spine element at a depth.
MoreLinesOf(depth) ==
    {k \in 1..Len(Out) : Out[k].kind = "more" /\ Out[k].depth = depth}

\* No element deeper than depth 5 is listed, and of no element a child
\* after its tenth.
ListedWithinBounds ==
    \A k \in 1..Len(Out) :
        Out[k].kind = "element" =>
            /\ Out[k].depth <= SNAPSHOT_MAX_DEPTH
            /\ Out[k].index <= MAX_CHILDREN

\* The element at a depth has exactly one summary line, which reports all
\* its children but ten.
OneSummary(depth) ==
    /\ Cardinality(MoreLinesOf(depth)) = 1
    /\ \A k \in MoreLinesOf(depth) :
           Out[k].count = FanAt(dom, depth) - MAX_CHILDREN

\* C26, as stated: no element deeper than depth 5 is listed, at most the
\* first 10 children of an element are expanded, and a listed element with
\* n > 10 children has exactly one summary line, reporting n - 10.
C26_TraversalBounded ==
    lines.done =>
        /\ ListedWithinBounds
        /\ \A depth \in 0..MaxSpine :
               Listed(depth) /\ FanAt(dom, depth) > MAX_CHILDREN =>
                   OneSummary(depth)

\* C26, amended: the same bounds; the summary line reporting n - 10 is
\* emitted exactly for the listed elements above depth 5 whose n > 10
\* children could be read.  An element at depth 5, and one whose children
\* cannot be read, is listed without its children and without a summary.
C26_TraversalBoundedAboveDepth5 ==
    lines.done =>
        /\ ListedWithinBounds
        /\ \A depth \in 0..MaxSpine :
               IF /\ Listed(depth)
                  /\ FanAt(dom, depth) > MAX_CHILDREN
                  /\ depth < SNAPSHOT_MAX_DEPTH
                  /\ dom.unreadable # depth
               THEN OneSummary(depth)
               ELSE MoreLinesOf(depth) = {}

\* A canvas whose root and whose element at depth 5 have 11 children each:
\* the root gets its summary of 1, the element at depth 5 is listed, its
\* children are not, and it gets no summary.
C26_Witness ==
    /\ lines.done
    /\ Len(dom.fans) = MaxSpine /\ dom.unreadable = Readable
    /\ FanAt(dom, 0) = MAX_CHILDREN + 1
    /\ FanAt(dom, SNAPSHOT_MAX_DEPTH) = MAX_CHILDREN + 1
    /\ Listed(SNAPSHOT_MAX_DEPTH) /\ ~Listed(SNAPSHOT_MAX_DEPTH + 1)
    /\ OneSummary(0)
    /\ MoreLinesOf(SNAPSHOT_MAX_DEPTH) = {}


\* Slot p is an execution of processNext that has selected item i and is at
\* one of its setItemStatus calls.
WritesItem(p, i) ==
    /\ proc[p].pc \in {"setBuilding", "setDone", "setError"}
    /\ proc[p].item = i
    /\ Steps(p)

\* C27: the poller changes nothing of the queue but the status and the
\* errorMessage of items: a step that changes an item is a setItemStatus
\* call of an execution of processNext on the item that execution selected,
\* it leaves the item's plan and order and every other item as they were,
\* and no step creates or deletes an item.
C27_OnlyStatusOfSelected ==
    [][/\ DOMAIN store' = DOMAIN store
       /\ \A i \in DOMAIN store :
              store'[i] # store[i] =>
                  /\ \E p \in Procs : WritesItem(p, i)
                  /\ store'[i].plan = store[i].plan
                  /\ store'[i].order = store[i].order
                  /\ \A j \in DOMAIN store \ {i} : store'[j] = store[j]
      ]_vars

\* One item has been built and marked done, with its plan and order as
\* submitted, while the other is still as it was submitted.
C27_Witness ==
    \E i, j \in DOMAIN store :
        /\ i # j
        /\ store[i].status = "done" /\ store[i].order = i
        /\ store[j] \in {q[j] : q \in SubmittedQueues(NumItems)}


\* What the validators have said of the document so far.
GivenVerdicts ==
    {verdict.extension[k] : k \in 1..Len(verdict.extension)}
    \cup {verdict.relay[k] : k \in 1..Len(verdict.relay)}

\* A document without styles whose nodes are the root Section and DivBlocks:
\* nothing but its depth can be wrong with it.
PlainDocument(doc) ==
    /\ doc.style = NoStyles
    /\ \A k \in 1..Len(doc.nodes) : doc.nodes[k].type \in {"Section", "DivBlock"}

\* C28: with the root Section at depth 1, every validator (the extension's
\* validate and the relay's validateBuildPlan) rejects a plan whose tree has
\* a node at depth 7, citing the depth limit, and accepts a tree of depth 6.
C28_DepthLimitEverywhere ==
    PlainDocument(vdoc) =>
        \A v \in GivenVerdicts :
            /\ Len(vdoc.nodes) >= 7 => ~v.ok /\ v.rule = "depth"
            /\ Len(vdoc.nodes) <= 6 => v.ok

\* The denylist as the claim has it.
ClaimedDenylist ==
    {"padding", "margin", "border-radius", "gap", "row-gap", "column-gap",
     "background", "font", "border", "outline", "list-style", "animation",
     "transition", "flex", "grid-template"}

\* C29: validate rejects every plan of which a style has a key of the
\* denylist in its properties map or in one of its breakpoints or pseudo
\* maps, citing the key, and a longhand key such as padding-top is no
\* reason to reject.
C29_ShorthandRejected ==
    \A k \in 1..Len(verdict.extension) :
        LET v == verdict.extension[k]
        IN  /\ vdoc.style.key \in ClaimedDenylist =>
                   ~v.ok /\ v.rule = "shorthand" /\ v.field = vdoc.style.key
            /\ vdoc.style.key = LonghandKey => v.rule # "shorthand"

\* The fields the claim requires of a node that the node lacks.
LackingFields(el) ==
    {f \in {"headingLevel", "href", "src", "alt", "domTag"} :
        \/ f = "headingLevel" /\ el.type = "Heading"
                              /\ el.headingLevel \notin {1, 2, 3, 4, 5, 6}
        \/ f = "href" /\ el.type \in {"Button", "TextLink", "LinkBlock"}
                      /\ ~el.href
        \/ f = "src" /\ el.type = "Image" /\ ~el.src
        \/ f = "alt" /\ el.type = "Image" /\ el.alt = "absent"
        \/ f = "domTag" /\ el.type = "DOM" /\ ~el.domTag}

\* The nodes of the document that lack a required field.
LackingNodes(doc) ==
    {k \in 1..Len(doc.nodes) : LackingFields(doc.nodes[k]) # {}}

\* C30: validate rejects every document of which a node, at whatever depth,
\* lacks the field its type requires (headingLevel, an integer from 1 to 6,
\* for Heading; href for Button, TextLink and LinkBlock; src and alt for
\* Image; domTag for DOM); when that is the first thing wrong with the
\* document (its styles pass and the node is within the depth limit), the
\* message names that field and the path of the node.  A document that
\* lacks no such field is not rejected for one.
C30_RequiredFieldNamed ==
    \A n \in 1..Len(verdict.extension) :
        LET v == verdict.extension[n]
        IN  /\ \A k \in LackingNodes(vdoc) :
                   /\ ~v.ok
                   /\ validateStyleDef(vdoc.style).ok /\ k <= 6 =>
                          /\ v.rule = "field"
                          /\ v.field \in LackingFields(vdoc.nodes[k])
                          /\ v.path = k
            /\ LackingNodes(vdoc) = {} => v.rule # "field"
            /\ LackingNodes(vdoc) = {} /\ vdoc.style = NoStyles
                   /\ Len(vdoc.nodes) <= 6 => v.ok

\* A document whose node at depth 6, a LinkBlock, has no href: validate
\* rejects it naming href and that node.
C30_Witness ==
    /\ verdict.extension = <<Rejected("field", "href", 6)>>
    /\ Len(vdoc.nodes) = 6
    /\ vdoc.nodes[6].type = "LinkBlock"


\* The pairs of positions of the styles list that hold the same name.
DuplicatePairs(doc) ==
    {pr \in (1..Len(doc.names)) \X (1..Len(doc.names)) :
        pr[1] < pr[2] /\ doc.names[pr[1]] = doc.names[pr[2]]}

\* C31: validate rejects every plan of which two styles, at whatever two
\* positions of the list, have the same name; when nothing before the
\* second of them is wrong, the message cites a name that the list has
\* twice.  A list of pairwise distinct names is not rejected as a duplicate,
\* and is accepted when nothing else is wrong.
C31_DuplicateNameRejected ==
    \A n \in 1..Len(verdict.extension) :
        LET v == verdict.extension[n]
        IN  /\ DuplicatePairs(vdoc) # {} =>
                   /\ ~v.ok
                   /\ validateStyleDef(vdoc.style).ok =>
                          /\ v.rule = "duplicate"
                          /\ \E pr \in DuplicatePairs(vdoc) :
                                 v.field = vdoc.names[pr[1]]
            /\ DuplicatePairs(vdoc) = {} =>
                   /\ v.rule # "duplicate"
                   /\ validateStyleDef(vdoc.style).ok => v.ok

\* A list of three styles of which the first and the last have the same
\* name and the one between another: rejected citing that name.
C31_Witness ==
    /\ verdict.extension = <<Rejected("duplicate", "hero", NoPath)>>
    /\ vdoc.names = <<"hero", "card", "hero">>


\* The example plan: one style, a root with one child.
ExamplePlan(plan) ==
    /\ plan.version = "1.0"
    /\ Len(plan.styles) = 1 /\ plan.styles[1].name = "hero"
    /\ Len(plan.tree) = 2

\* No canvas call of call e threw in its style stage or its tree stage.
NoCallFailed(e) ==
    /\ ~FailedAt(e, {"lookup", "create", "write"})
    /\ e.failedNodes = {}

\* The BuildResult of a call that succeeded with the given counts.
Yields(result, elements, created, skipped) ==
    /\ result.success
    /\ result.elementsCreated = elements
    /\ result.stylesCreated = created
    /\ result.stylesSkipped = skipped

\* C32: on a canvas without the style, and with every canvas call going
\* through, executing the example plan returns success=true,
\* elementsCreated=2, stylesCreated=1 and puts the style and two elements on
\* the canvas; executing it again returns success=true, stylesCreated=0,
\* stylesSkipped=1, elementsCreated=2 and puts two more elements on the
\* canvas.
C32_ExampleTwice ==
    \A i \in EndedCalls :
        (/\ ExamplePlan(runs[i].frame.plan)
         /\ NoCallFailed(runs[i].frame)
         /\ ~runs[i].before.styles["hero"].present) =>
            /\ Yields(runs[i].frame.result, 2, 1, 0)
            /\ runs[i].after.styles["hero"].present
            /\ Cardinality(ElementsOf(runs[i].after, i)) = 2
            /\ (i + 1 \in EndedCalls /\ NoCallFailed(runs[i + 1].frame)) =>
                  /\ Yields(runs[i + 1].frame.result, 2, 0, 1)
                  /\ Cardinality(ElementsOf(runs[i + 1].after, i + 1)) = 2
                  /\ ElementsOf(runs[i + 1].after, i) =
                         ElementsOf(runs[i].after, i)

\* The example plan has been executed twice on a canvas that began without
\* the style, no canvas call failing.
C32_Witness ==
    /\ Len(runs) = 2 /\ EndedCalls = {1, 2}
    /\ ExamplePlan(runs[1].frame.plan)
    /\ ~runs[1].before.styles["hero"].present
    /\ NoCallFailed(runs[1].frame) /\ NoCallFailed(runs[2].frame)
    /\ Yields(runs[2].frame.result, 2, 0, 1)
    /\ Len(runs[2].after.elems) = Len(runs[1].before.elems) + 4

\* C33: the clear operation deletes only items whose status is done or
\* error: no item is pending or building when its delete lands, however the
\* route's steps interleave with the consumer's status writes.
C33_ClearOnlyCompleted ==
    \A r \in clearOp.removed : r.status \in Terminal

\* C34: in every reachable state of a queue driven by one consumer at most
\* one item has the status building, also after ticks in which the write of
\* done or of error failed.
C34_AtMostOneBuilding ==
    Cardinality({i \in Items : store[i].status = "building"}) <= 1

\* C35: a tick whose executor call returned success=true ends with its item
\* stored as done: an item whose plan was built on the canvas is never left
\* marked error.
C35_SuccessEndsDone ==
    \A p \in Procs :
       (/\ proc[p].pc = "ret"
        /\ proc[p].result.called
        /\ proc[p].result.success) =>
           store[proc[p].item].status = "done"

\* Slots that hold a link of a poll chain: a timer that is armed, or a tick
\* that a timer callback is running.
LiveChains == {p \in Procs : proc[p].kind = "timer" /\ proc[p].pc # "idle"}

\* C36: under any sequence of start() and stop(), also stop() followed by
\* start() while a tick is in flight, the poller has at most one live poll
\* chain: at most one timer is armed or timer tick running.
C36_OneLivePollChain ==
    Cardinality(LiveChains) <= 1

\* C37: a snapshot that a poll returns for a site was captured no earlier
\* than the last request made for that site: neither an older stored one nor
\* one whose capture was in flight when the request arrived comes back.
C37_ReturnedSnapshotIsFresh ==
    (LastCall.kind = "poll" /\ LastCall.ok) =>
        relay.snapshots[LastCall.site].summary.capturedAt >=
            snapHist.site[LastCall.site].requestedAt

\* Pairs of places in the queue of which the first holds an item that was
\* submitted earlier and is still pending, and the second an item whose
\* order is not greater.
OrderInversions ==
    {ij \in (DOMAIN cms.items) \X (DOMAIN cms.items) :
        /\ cms.items[ij[1]].id < cms.items[ij[2]].id
        /\ cms.items[ij[1]].status = "pending"
        /\ cms.items[ij[2]].order <= cms.items[ij[1]].order}

\* C38: items submitted through POST /queue are built in submission order:
\* the order given to a later submission is greater than the order of every
\* earlier item still pending, whatever submissions, clears and deletes
\* there were, and the consumer never selects an item while an item
\* submitted earlier is pending.
C38_BuiltInSubmissionOrder ==
    /\ OrderInversions = {}
    /\ cms.last.passed = {}

\* C39: the elementsCreated count a build reports equals the number of
\* elements the build has added to the canvas: no element stays on the
\* canvas uncounted when a node fails after its element was inserted, at the
\* root or in a child subtree.
C39_CountEqualsAdded ==
    \A i \in EndedCalls :
       runs[i].frame.result.elementsCreated =
          Cardinality(ElementsOf(runs[i].after, i))

\* C40: the two validators agree: a plan the relay's validateBuildPlan
\* accepts at submission is accepted by the extension's validate at
\* execution, and a plan validate accepts is accepted by validateBuildPlan.
C40_ValidatorsAgree ==
    (verdict.extension # <<>> /\ verdict.relay # <<>>) =>
        (verdict.relay[1].ok <=> verdict.extension[1].ok)

====
